---- MODULE Spec2Model ----
(***************************************************************************)
(* A model of jscompiler: the code generator (code_generator.py) with its  *)
(* precedence table (precedence.py), the minified print consumer           *)
(* (code_consumer.py), and the scope builder and renamer                   *)
(* (scope_builder.py, rename.py, name_generator.py).                       *)
(*                                                                         *)
(* Python unicode strings that reach the output stream are modelled as     *)
(* sequences of one-character strings, so that writing two token texts one *)
(* after the other and reading the text back is a real conversion.         *)
(***************************************************************************)
EXTENDS Integers, Sequences, FiniteSets, TLC

VARIABLES
    ast,                \* the tree handed to CodeGenerator.generate or to rename_locals
    work,               \* the pending calls, next call first
    marked_for_parens,  \* CodeGenerator.marked_for_parens
    last_token,         \* MinifiedPrintConsumer.last_token
    stream,             \* the characters written to MinifiedPrintConsumer.stream
    calls,              \* history: the report_* calls the consumer has served
    written,            \* history: the tokens passed to report_token, SPACE included
    scopes,             \* the Scope objects made so far; a scope is named by its index
    scope,              \* self.scope of the visitor that is running
    node_scope,         \* the scope attribute of the scoped nodes, by the node's path
    renamed,            \* history: the names RenameTransformer has looked up
    generate_calls,     \* history: the calls of generate_names, by scope, each with
                        \* the number of names that had been looked up before it
    self_index,         \* NameGenerator.index of the generator that is drawn from
    drawn,              \* history: the names NameGenerator.next has returned
    returned            \* the value returned by precedence(ast), None before the call

generatorVars == <<marked_for_parens, last_token, stream, calls, written>>
renameVars == <<scopes, scope, node_scope, renamed, generate_calls>>
resultVars == <<self_index, drawn, returned>>
vars == <<ast, work, marked_for_parens, last_token, stream, calls, written,
          scopes, scope, node_scope, renamed, generate_calls, self_index, drawn,
          returned>>

\* None where a Scope is expected
NoScope == 0

(***************************************************************************)
(* Texts.                                                                  *)
(***************************************************************************)

\* The characters of a text.  Every text of more than one character that the
\* model uses is listed; any other text is a single character.
Chars(s) ==
    CASE s = "" -> <<>>
      [] s = "return" -> <<"r","e","t","u","r","n">>
      [] s = "new" -> <<"n","e","w">>
      [] s = "delete" -> <<"d","e","l","e","t","e">>
      [] s = "typeof" -> <<"t","y","p","e","o","f">>
      [] s = "null" -> <<"n","u","l","l">>
      [] s = "this" -> <<"t","h","i","s">>
      [] s = "false" -> <<"f","a","l","s","e">>
      [] s = "true" -> <<"t","r","u","e">>
      [] s = "throw" -> <<"t","h","r","o","w">>
      [] s = "in" -> <<"i","n">>
      [] s = "instanceof" -> <<"i","n","s","t","a","n","c","e","o","f">>
      [] s = "try" -> <<"t","r","y">>
      [] s = "function" -> <<"f","u","n","c","t","i","o","n">>
      [] s = "if" -> <<"i","f">>
      [] s = "else" -> <<"e","l","s","e">>
      [] s = "switch" -> <<"s","w","i","t","c","h">>
      [] s = "case" -> <<"c","a","s","e">>
      [] s = "default" -> <<"d","e","f","a","u","l","t">>
      [] s = "while" -> <<"w","h","i","l","e">>
      [] s = "do" -> <<"d","o">>
      [] s = "for" -> <<"f","o","r">>
      [] s = "break" -> <<"b","r","e","a","k">>
      [] s = "continue" -> <<"c","o","n","t","i","n","u","e">>
      [] s = "var" -> <<"v","a","r">>
      [] s = "with" -> <<"w","i","t","h">>
      [] s = "catch" -> <<"c","a","t","c","h">>
      [] s = "finally" -> <<"f","i","n","a","l","l","y">>
      [] s = "void" -> <<"v","o","i","d">>
      [] s = "class" -> <<"c","l","a","s","s">>
      [] s = "eval" -> <<"e","v","a","l">>
      [] s = "'s'" -> <<"'","s","'">>
      [] s = "/r/" -> <<"/","r","/">>
      [] s = "|=" -> <<"|","=">>
      [] s = "^=" -> <<"^","=">>
      [] s = "&=" -> <<"&","=">>
      [] s = "<<=" -> <<"<","<","=">>
      [] s = ">>=" -> <<">",">","=">>
      [] s = ">>>=" -> <<">",">",">","=">>
      [] s = "+=" -> <<"+","=">>
      [] s = "-=" -> <<"-","=">>
      [] s = "*=" -> <<"*","=">>
      [] s = "/=" -> <<"/","=">>
      [] s = "%=" -> <<"%","=">>
      [] s = "||" -> <<"|","|">>
      [] s = "&&" -> <<"&","&">>
      [] s = "<<" -> <<"<","<">>
      [] s = ">>" -> <<">",">">>
      [] s = ">>>" -> <<">",">",">">>
      [] s = "==" -> <<"=","=">>
      [] s = "!=" -> <<"!","=">>
      [] s = "===" -> <<"=","=","=">>
      [] s = "!==" -> <<"!","=","=">>
      [] s = "<=" -> <<"<","=">>
      [] s = ">=" -> <<">","=">>
      [] s = "++" -> <<"+","+">>
      [] s = "--" -> <<"-","-">>
      [] OTHER -> <<s>>

(***************************************************************************)
(* Tokens (bigrig.token): a token is a kind and a text.                    *)
(***************************************************************************)

\* t.KEYWORD_TO_TYPE: keyword text to token kind
KEYWORD_TO_TYPE ==
    [k \in {"return", "new", "delete", "typeof", "null", "this", "false", "true",
            "throw", "in", "instanceof", "try", "function", "if", "else", "switch",
            "case", "default", "while", "do", "for", "break", "continue", "var",
            "with", "catch", "finally", "void"} |->
        CASE k = "return" -> "RETURN" [] k = "new" -> "NEW" [] k = "delete" -> "DELETE"
          [] k = "typeof" -> "TYPEOF" [] k = "null" -> "NULL" [] k = "this" -> "THIS"
          [] k = "false" -> "FALSE" [] k = "true" -> "TRUE" [] k = "throw" -> "THROW"
          [] k = "in" -> "IN" [] k = "instanceof" -> "INSTANCEOF" [] k = "try" -> "TRY"
          [] k = "function" -> "FUNCTION" [] k = "if" -> "IF" [] k = "else" -> "ELSE"
          [] k = "switch" -> "SWITCH" [] k = "case" -> "CASE" [] k = "default" -> "DEFAULT"
          [] k = "while" -> "WHILE" [] k = "do" -> "DO" [] k = "for" -> "FOR"
          [] k = "break" -> "BREAK" [] k = "continue" -> "CONTINUE" [] k = "var" -> "VAR"
          [] k = "with" -> "WITH" [] k = "catch" -> "CATCH" [] k = "finally" -> "FINALLY"
          [] k = "void" -> "VOID"]

\* t.LITERAL_TO_TYPE: punctuation text to token kind
LITERAL_TO_TYPE ==
    [p \in {"(", ")", "{", "}", "[", "]", ";", ",", ":", ".", "?", "="} |->
        CASE p = "(" -> "LPAREN" [] p = ")" -> "RPAREN" [] p = "{" -> "LBRACE"
          [] p = "}" -> "RBRACE" [] p = "[" -> "LBRACKET" [] p = "]" -> "RBRACKET"
          [] p = ";" -> "SEMICOLON" [] p = "," -> "COMMA" [] p = ":" -> "COLON"
          [] p = "." -> "DOT" [] p = "?" -> "QUESTION" [] p = "=" -> "ASSIGN"]

BINARY_OP_TO_TYPE ==
    [o \in {"=", "|=", "^=", "&=", "<<=", ">>=", ">>>=", "+=", "-=", "*=", "/=", "%=",
            ",", "||", "&&", "|", "^", "&", "<<", ">>", ">>>", "+", "-", "*", "/", "%",
            "==", "!=", "===", "!==", "<", ">", "<=", ">=", "instanceof", "in"} |->
        CASE o = "=" -> "ASSIGN" [] o = "|=" -> "ASSIGN_BITOR" [] o = "^=" -> "ASSIGN_BITXOR"
          [] o = "&=" -> "ASSIGN_BITAND" [] o = "<<=" -> "ASSIGN_LSH" [] o = ">>=" -> "ASSIGN_RSH"
          [] o = ">>>=" -> "ASSIGN_URSH" [] o = "+=" -> "ASSIGN_ADD" [] o = "-=" -> "ASSIGN_SUB"
          [] o = "*=" -> "ASSIGN_MUL" [] o = "/=" -> "ASSIGN_DIV" [] o = "%=" -> "ASSIGN_MOD"
          [] o = "," -> "COMMA" [] o = "||" -> "OR" [] o = "&&" -> "AND" [] o = "|" -> "BITOR"
          [] o = "^" -> "BITXOR" [] o = "&" -> "BITAND" [] o = "<<" -> "LSH" [] o = ">>" -> "RSH"
          [] o = ">>>" -> "URSH" [] o = "+" -> "ADD" [] o = "-" -> "SUB" [] o = "*" -> "MUL"
          [] o = "/" -> "DIV" [] o = "%" -> "MOD" [] o = "==" -> "EQ" [] o = "!=" -> "NE"
          [] o = "===" -> "SHEQ" [] o = "!==" -> "SHNE" [] o = "<" -> "LT" [] o = ">" -> "GT"
          [] o = "<=" -> "LE" [] o = ">=" -> "GE" [] o = "instanceof" -> "INSTANCEOF"
          [] o = "in" -> "IN"]

UNARY_OP_TO_TYPE ==
    [o \in {"delete", "void", "typeof", "++", "--", "+", "-", "~", "!"} |->
        CASE o = "delete" -> "DELETE" [] o = "void" -> "VOID" [] o = "typeof" -> "TYPEOF"
          [] o = "++" -> "INC" [] o = "--" -> "DEC" [] o = "+" -> "ADD" [] o = "-" -> "SUB"
          [] o = "~" -> "BITNOT" [] o = "!" -> "NOT"]

\* t.Token(type, value)
Token(type, value) == [type |-> type, value |-> Chars(value)]

\* MinifiedPrintConsumer.last_token before any token is written
NoToken == [type |-> "None"]

(***************************************************************************)
(* code_consumer.py                                                        *)
(***************************************************************************)

LITERALS ==
    {"RETURN", "NEW", "DELETE", "TYPEOF", "NULL", "THIS", "FALSE", "TRUE", "THROW",
     "IN", "INSTANCEOF", "TRY", "FUNCTION", "IF", "ELSE", "SWITCH", "CASE", "DEFAULT",
     "WHILE", "DO", "FOR", "BREAK", "CONTINUE", "VAR", "WITH", "CATCH", "FINALLY",
     "VOID", "RESERVED", "IDENTIFIER"}

\* MinifiedPrintConsumer.last_was
last_was(type) == last_token # NoToken /\ last_token.type = type

\* the same test with reserved words left out of the literal kinds
AfterKeywordOrIdentifier ==
    last_token # NoToken /\ last_token.type \in LITERALS \ {"RESERVED"}

\* the test of report_number, report_identifier and report_keyword
AfterLiteral == last_token # NoToken /\ last_token.type \in LITERALS

\* the test of report_prefix_op
PrefixNeedsSpace(token) ==
    \/ token.type = "INC" /\ last_was("ADD")
    \/ token.type = "DEC" /\ last_was("SUB")

\* the test of report_unary_op
UnaryNeedsSpace(token) ==
    \/ token.type = "ADD" /\ last_was("ADD")
    \/ token.type = "SUB" /\ last_was("SUB")

\* report_space
SpaceToken == Token("SPACE", " ")

\* The next pending call is a report of `m` to the consumer.
Reports(m) == work # <<>> /\ Head(work).k = "report" /\ Head(work).m = m

\* report_token(token), preceded by report_space() when `space` holds: both
\* set last_token and write the text to the stream.
Write(space, token) ==
    LET toks == IF space THEN <<SpaceToken, token>> ELSE <<token>>
    IN  /\ last_token' = token
        /\ stream' = stream \o (IF space THEN SpaceToken.value ELSE <<>>) \o token.value
        /\ written' = written \o toks
        /\ calls' = Append(calls, [m |-> Head(work).m, token |-> token])
        /\ work' = Tail(work)
        /\ UNCHANGED <<ast, marked_for_parens>>
        /\ UNCHANGED <<renameVars, resultVars>>

report_token == Reports("token") /\ Write(FALSE, Head(work).token)

report_number == Reports("number") /\ Write(AfterLiteral, Head(work).token)

report_prefix_op ==
    Reports("prefix_op") /\ Write(PrefixNeedsSpace(Head(work).token), Head(work).token)

report_unary_op ==
    Reports("unary_op") /\ Write(UnaryNeedsSpace(Head(work).token), Head(work).token)

report_identifier == Reports("identifier") /\ Write(AfterLiteral, Head(work).token)

report_keyword == Reports("keyword") /\ Write(AfterLiteral, Head(work).token)

\* BaseConsumer: the methods MinifiedPrintConsumer does not override
report_literal == Reports("literal") /\ Write(FALSE, Head(work).token)

report_binary_op == Reports("binary_op") /\ Write(FALSE, Head(work).token)

report_postfix_op == Reports("postfix_op") /\ Write(FALSE, Head(work).token)

report_regexp == Reports("regexp") /\ Write(FALSE, Head(work).token)

Consume ==
    \/ report_token
    \/ report_number
    \/ report_prefix_op
    \/ report_unary_op
    \/ report_identifier
    \/ report_keyword
    \/ report_literal
    \/ report_binary_op
    \/ report_postfix_op
    \/ report_regexp

(***************************************************************************)
(* The lexer whose tokens the parser consumes (bigrig, outside this        *)
(* repository), after the ECMAScript 5 lexical grammar: longest match,     *)
(* `//` opens a comment, a `/` where an operand may start opens a regular  *)
(* expression, and a numeric literal may not be followed directly by an    *)
(* identifier character or a digit.                                        *)
(***************************************************************************)

Digits == {"0", "1", "2", "3", "4", "5", "6", "7", "8", "9"}

IdentifierStart ==
    {"a", "b", "c", "d", "e", "f", "g", "h", "i", "j", "k", "l", "m", "n", "o", "p",
     "q", "r", "s", "t", "u", "v", "w", "x", "y", "z", "A", "B", "C", "D", "$", "_"}

IdentifierPart == IdentifierStart \cup Digits

\* bigrig.constants.RESERVED_NAMES, as far as the model uses it
RESERVED_NAMES == {"class"}

\* the punctuators, as texts
Punctuators ==
    (DOMAIN LITERAL_TO_TYPE \cup DOMAIN BINARY_OP_TO_TYPE \cup DOMAIN UNARY_OP_TO_TYPE)
        \ (DOMAIN KEYWORD_TO_TYPE)

PunctuatorType(p) ==
    IF p \in DOMAIN LITERAL_TO_TYPE THEN LITERAL_TO_TYPE[p]
    ELSE IF p \in DOMAIN BINARY_OP_TO_TYPE THEN BINARY_OP_TO_TYPE[p]
    ELSE UNARY_OP_TO_TYPE[p]

\* the first index from i on at which s holds no character of `set`
RECURSIVE SkipWhile(_, _, _)
SkipWhile(s, i, set) ==
    IF i <= Len(s) /\ s[i] \in set THEN SkipWhile(s, i + 1, set) ELSE i

\* the first index from i on at which s holds c, or Len(s) + 1
RECURSIVE FindChar(_, _, _)
FindChar(s, i, c) ==
    IF i > Len(s) \/ s[i] = c THEN i ELSE FindChar(s, i + 1, c)

\* a token after which `/` is a division, not the start of a regular expression
EndsOperand(prev) ==
    /\ prev # NoToken
    /\ prev.type \in {"IDENTIFIER", "RESERVED", "DECIMAL", "STRING", "REGEXP", "RPAREN",
                      "RBRACKET", "RBRACE", "THIS", "NULL", "TRUE", "FALSE", "INC", "DEC"}

Illegal(s, i) == <<[type |-> "ILLEGAL", value |-> SubSeq(s, i, Len(s))]>>

\* the longest punctuator starting at s[i], as a text, or "" when there is none
LongestPunctuator(s, i) ==
    LET fits(n) == {p \in Punctuators : Len(Chars(p)) = n /\ i + n - 1 <= Len(s)
                                          /\ SubSeq(s, i, i + n - 1) = Chars(p)}
        pick(n) == CHOOSE p \in fits(n) : TRUE
    IN  IF fits(4) # {} THEN pick(4)
        ELSE IF fits(3) # {} THEN pick(3)
        ELSE IF fits(2) # {} THEN pick(2)
        ELSE IF fits(1) # {} THEN pick(1)
        ELSE ""

\* the tokens of s from index i on, where prev is the token before
RECURSIVE LexFrom(_, _, _)
LexFrom(s, i, prev) ==
    IF i > Len(s) THEN <<>>
    ELSE LET c == s[i] IN
    IF c = " " THEN LexFrom(s, i + 1, prev)
    ELSE IF c \in IdentifierStart THEN
        LET j == SkipWhile(s, i, IdentifierPart)
            word == SubSeq(s, i, j - 1)
            kw == {k \in DOMAIN KEYWORD_TO_TYPE : Chars(k) = word}
            tok == [type |-> IF kw # {} THEN KEYWORD_TO_TYPE[CHOOSE k \in kw : TRUE]
                             ELSE IF \E r \in RESERVED_NAMES : Chars(r) = word
                                  THEN "RESERVED" ELSE "IDENTIFIER",
                    value |-> word]
        IN  <<tok>> \o LexFrom(s, j, tok)
    ELSE IF c \in Digits \/ (c = "." /\ i < Len(s) /\ s[i + 1] \in Digits) THEN
        LET j1 == SkipWhile(s, i, Digits)
            j == IF j1 <= Len(s) /\ s[j1] = "." THEN SkipWhile(s, j1 + 1, Digits) ELSE j1
            tok == [type |-> "DECIMAL", value |-> SubSeq(s, i, j - 1)]
        IN  IF j <= Len(s) /\ s[j] \in IdentifierPart THEN Illegal(s, i)
            ELSE <<tok>> \o LexFrom(s, j, tok)
    ELSE IF c = "'" THEN
        LET j == FindChar(s, i + 1, "'")
            tok == [type |-> "STRING", value |-> SubSeq(s, i, j)]
        IN  IF j > Len(s) THEN Illegal(s, i) ELSE <<tok>> \o LexFrom(s, j + 1, tok)
    ELSE IF c = "/" /\ i < Len(s) /\ s[i + 1] = "/" THEN <<>>
    ELSE IF c = "/" /\ i < Len(s) /\ s[i + 1] = "*" THEN Illegal(s, i)
    ELSE IF c = "/" /\ ~EndsOperand(prev) THEN
        LET j == FindChar(s, i + 1, "/")
            k == SkipWhile(s, j + 1, IdentifierPart)
            tok == [type |-> "REGEXP", value |-> SubSeq(s, i, j)]
            flags == [type |-> "IDENTIFIER", value |-> SubSeq(s, j + 1, k - 1)]
        IN  IF j > Len(s) THEN Illegal(s, i)
            ELSE IF k > j + 1 THEN <<tok, flags>> \o LexFrom(s, k, flags)
            ELSE <<tok>> \o LexFrom(s, k, tok)
    ELSE
        LET p == LongestPunctuator(s, i)
            tok == [type |-> PunctuatorType(p), value |-> Chars(p)]
        IN  IF p = "" THEN Illegal(s, i)
            ELSE <<tok>> \o LexFrom(s, i + Len(Chars(p)), tok)

Lex(s) == LexFrom(s, 1, NoToken)

(***************************************************************************)
(* The abstract syntax tree (bigrig.ast).  A node is a record with its     *)
(* class in `type` and the fields of that class.  None is NoNode; a name   *)
(* that is a plain unicode string is a string, "" when it is absent.       *)
(***************************************************************************)

NoNode == [type |-> "None"]

\* a unicode string where the visitor expects a node (visit_unicode)
Unicode(s) == [type |-> "unicode", value |-> s]
\* a list that may be None (NewExpression.arguments)
NodeList(items) == [type |-> "list", items |-> items]

Name(value) == [type |-> "Name", value |-> value]
PropertyName(value) == [type |-> "PropertyName", value |-> value]
StringLiteral(value) == [type |-> "StringLiteral", value |-> value]
NumberLiteral(value) == [type |-> "NumberLiteral", value |-> value]
RegExpLiteral(pattern, flags) == [type |-> "RegExpLiteral", pattern |-> pattern, flags |-> flags]
ThisNode == [type |-> "ThisNode"]
NullNode == [type |-> "NullNode"]
TrueNode == [type |-> "TrueNode"]
FalseNode == [type |-> "FalseNode"]
Elision == [type |-> "Elision"]
ArrayLiteral(elements) == [type |-> "ArrayLiteral", elements |-> elements]
ObjectLiteral(properties) == [type |-> "ObjectLiteral", properties |-> properties]
ObjectProperty(name, value) == [type |-> "ObjectProperty", name |-> name, value |-> value]
FunctionExpression(name, parameters, body) ==
    [type |-> "FunctionExpression", name |-> name, parameters |-> parameters, body |-> body]
Assignment(target, op, value) ==
    [type |-> "Assignment", target |-> target, op |-> op, value |-> value]
Conditional(condition, then_expression, else_expression) ==
    [type |-> "Conditional", condition |-> condition,
     then_expression |-> then_expression, else_expression |-> else_expression]
BinaryOperation(left, op, right) ==
    [type |-> "BinaryOperation", left |-> left, op |-> op, right |-> right]
CompareOperation(left, op, right) ==
    [type |-> "CompareOperation", left |-> left, op |-> op, right |-> right]
UnaryOperation(op, expression) ==
    [type |-> "UnaryOperation", op |-> op, expression |-> expression]
PrefixCountOperation(op, expression) ==
    [type |-> "PrefixCountOperation", op |-> op, expression |-> expression]
PostfixCountOperation(expression, op) ==
    [type |-> "PostfixCountOperation", expression |-> expression, op |-> op]
TypeofOperation(expression) == [type |-> "TypeofOperation", expression |-> expression]
DeleteOperation(expression) == [type |-> "DeleteOperation", expression |-> expression]
VoidOperation(expression) == [type |-> "VoidOperation", expression |-> expression]
CallExpression(expression, arguments) ==
    [type |-> "CallExpression", expression |-> expression, arguments |-> arguments]
NewExpression(expression, arguments) ==
    [type |-> "NewExpression", expression |-> expression, arguments |-> arguments]
DotProperty(object, key) == [type |-> "DotProperty", object |-> object, key |-> key]
BracketProperty(object, key) == [type |-> "BracketProperty", object |-> object, key |-> key]

Block(statements) == [type |-> "Block", statements |-> statements]
VariableDeclaration(name, value) ==
    [type |-> "VariableDeclaration", name |-> name, value |-> value]
VariableStatement(declarations) ==
    [type |-> "VariableStatement", declarations |-> declarations]
EmptyStatement == [type |-> "EmptyStatement"]
ExpressionStatement(expression) == [type |-> "ExpressionStatement", expression |-> expression]
IfStatement(condition, then_statement, else_statement) ==
    [type |-> "IfStatement", condition |-> condition,
     then_statement |-> then_statement, else_statement |-> else_statement]
DoWhileStatement(body, condition) ==
    [type |-> "DoWhileStatement", body |-> body, condition |-> condition]
WhileStatement(condition, body) ==
    [type |-> "WhileStatement", condition |-> condition, body |-> body]
ForStatement(initialize, condition, next, body) ==
    [type |-> "ForStatement", initialize |-> initialize, condition |-> condition,
     next |-> next, body |-> body]
ForInStatement(each, enumerable, body) ==
    [type |-> "ForInStatement", each |-> each, enumerable |-> enumerable, body |-> body]
ContinueStatement(target) == [type |-> "ContinueStatement", target |-> target]
BreakStatement(target) == [type |-> "BreakStatement", target |-> target]
ReturnStatement(expression) == [type |-> "ReturnStatement", expression |-> expression]
WithStatement(expression, statement) ==
    [type |-> "WithStatement", expression |-> expression, statement |-> statement]
CaseClause(label, statements) ==
    [type |-> "CaseClause", label |-> label, statements |-> statements]
SwitchStatement(expression, cases) ==
    [type |-> "SwitchStatement", expression |-> expression, cases |-> cases]
LabelledStatement(label, statement) ==
    [type |-> "LabelledStatement", label |-> label, statement |-> statement]
Throw(exception) == [type |-> "Throw", exception |-> exception]
TryStatement(try_block, catch_var, catch_block, finally_block) ==
    [type |-> "TryStatement", try_block |-> try_block, catch_var |-> catch_var,
     catch_block |-> catch_block, finally_block |-> finally_block]
FunctionDeclaration(name, parameters, body) ==
    [type |-> "FunctionDeclaration", name |-> name, parameters |-> parameters, body |-> body]
Program(statements) == [type |-> "Program", statements |-> statements]

\* ast.PropertyAccess: the base class of DotProperty and BracketProperty
PropertyAccess == {"DotProperty", "BracketProperty"}

(***************************************************************************)
(* precedence.py                                                           *)
(***************************************************************************)

BINARY_OPS ==
    [o \in DOMAIN BINARY_OP_TO_TYPE |->
        CASE o \in {"=", "|=", "^=", "&=", "<<=", ">>=", ">>>=", "+=", "-=", "*=", "/=", "%="} -> 2
          [] o = "," -> 1
          [] o = "||" -> 4
          [] o = "&&" -> 5
          [] o = "|" -> 6
          [] o = "^" -> 7
          [] o = "&" -> 8
          [] o \in {"<<", ">>", ">>>"} -> 11
          [] o \in {"+", "-"} -> 12
          [] o \in {"*", "/", "%"} -> 13
          [] o \in {"==", "!=", "!==", "==="} -> 9
          [] o \in {"<", ">", "<=", ">=", "instanceof", "in"} -> 10]

UNARY_OPS == [o \in {"!", "~", "+", "-"} |-> 14]

NODE_TYPE_TO_PRECEDENCE ==
    [c \in {"TypeofOperation", "DeleteOperation", "VoidOperation", "PrefixCountOperation",
            "PostfixCountOperation", "Conditional", "CallExpression", "DotProperty",
            "BracketProperty", "NewExpression"} |->
        CASE c \in {"TypeofOperation", "DeleteOperation", "VoidOperation"} -> 14
          [] c \in {"PrefixCountOperation", "PostfixCountOperation"} -> 15
          [] c = "Conditional" -> 3
          [] c = "CallExpression" -> 16
          [] c \in {"DotProperty", "BracketProperty", "NewExpression"} -> 17]

\* precedence with the lookup in BINARY_OPS tried before the test for a
\* UnaryOperation
precedence_binary_first(node) ==
    IF node.type \in DOMAIN NODE_TYPE_TO_PRECEDENCE THEN NODE_TYPE_TO_PRECEDENCE[node.type]
    ELSE IF "op" \in DOMAIN node /\ node.op \in DOMAIN BINARY_OPS THEN BINARY_OPS[node.op]
    ELSE IF node.type = "UnaryOperation" /\ node.op \in DOMAIN UNARY_OPS THEN UNARY_OPS[node.op]
    ELSE 20

\* precedence(node): a KeyError or an AttributeError gives 20
precedence(node) ==
    IF node.type \in DOMAIN NODE_TYPE_TO_PRECEDENCE THEN NODE_TYPE_TO_PRECEDENCE[node.type]
    ELSE IF node.type = "UnaryOperation"
        THEN (IF node.op \in DOMAIN UNARY_OPS THEN UNARY_OPS[node.op] ELSE 20)
    ELSE IF "op" \in DOMAIN node /\ node.op \in DOMAIN BINARY_OPS THEN BINARY_OPS[node.op]
    ELSE 20

(***************************************************************************)
(* code_generator.py.  A call of visit(node) or of a report_* method is an *)
(* item of `work`; a visit_* handler replaces the visit at the head of     *)
(* `work` by the calls of its body, in order.                              *)
(***************************************************************************)

NEEDS_SEMICOLON ==
    {"DoWhileStatement", "ExpressionStatement", "ContinueStatement", "BreakStatement",
     "ReturnStatement", "VariableStatement"}

BODY_MAY_NEED_SEMICOLON ==
    {"WhileStatement", "WithStatement", "ForStatement", "ForInStatement"}

RECURSIVE Flatten(_)
Flatten(seqs) == IF seqs = <<>> THEN <<>> ELSE Head(seqs) \o Flatten(Tail(seqs))

\* self.visit(node)
Visit(node) == <<[k |-> "visit", node |-> node]>>
\* self.visit(name) for a unicode string or None
VisitName(name) == IF name = "" THEN <<>> ELSE Visit(Unicode(name))

Report(m, type, value) == <<[k |-> "report", m |-> m, token |-> Token(type, value)]>>

CG_report_token(type, value) == Report("token", type, value)
CG_report_number(value) == Report("number", "DECIMAL", value)
CG_report_keyword(value) == Report("keyword", KEYWORD_TO_TYPE[value], value)
CG_report_identifier(value) == Report("identifier", "IDENTIFIER", value)
CG_report_binary_op(value) ==
    IF value \in DOMAIN KEYWORD_TO_TYPE THEN CG_report_keyword(value)
    ELSE Report("binary_op", BINARY_OP_TO_TYPE[value], value)
CG_report_unary_op(value) ==
    IF value \in DOMAIN KEYWORD_TO_TYPE THEN CG_report_keyword(value)
    ELSE Report("unary_op", UNARY_OP_TO_TYPE[value], value)
CG_report_prefix_op(op) == Report("prefix_op", UNARY_OP_TO_TYPE[op], op)
CG_report_postfix_op(op) == Report("postfix_op", UNARY_OP_TO_TYPE[op], op)
CG_report_regexp(pattern) == Report("regexp", "REGEXP", pattern)
CG_report_literal(value) == Report("literal", LITERAL_TO_TYPE[value], value)

parenthesize(node) == CG_report_literal("(") \o Visit(node) \o CG_report_literal(")")

\* needs_semicolon: the body of a loop or with statement is looked at once;
\* for an IfStatement the branch is selected and True is returned.
needs_semicolon(node) ==
    LET n1 == IF node.type \in BODY_MAY_NEED_SEMICOLON
              THEN (IF "body" \in DOMAIN node THEN node.body ELSE node.statement)
              ELSE node
    IN  IF n1.type = "IfStatement" THEN TRUE
        ELSE n1.type \in NEEDS_SEMICOLON

maybe_semicolon(node) ==
    Visit(node) \o (IF needs_semicolon(node) THEN CG_report_literal(";") ELSE <<>>)

maybe_parens(node, parent) ==
    IF precedence(node) < precedence(parent) THEN parenthesize(node) ELSE Visit(node)

visit_comma_list(node) ==
    Flatten([i \in 1..Len(node) |->
        Visit(node[i]) \o (IF i < Len(node) THEN CG_report_literal(",") ELSE <<>>)])

\* a comma list of unicode strings (parameters)
visit_comma_names(node) == visit_comma_list([i \in 1..Len(node) |-> Unicode(node[i])])

visit_statement_list(statements) ==
    Flatten([i \in 1..Len(statements) |->
        IF i < Len(statements) THEN maybe_semicolon(statements[i])
        ELSE Visit(statements[i])])

\* The handler of `type` is entered and replaces its visit by `items`.
Visiting(type) == work # <<>> /\ Head(work).k = "visit" /\ Head(work).node.type = type
node == Head(work).node
Body(items) ==
    /\ work' = items \o Tail(work)
    /\ UNCHANGED <<ast, last_token, stream, calls, written>>
    /\ UNCHANGED <<renameVars, resultVars>>
Emit(items) == Body(items) /\ UNCHANGED marked_for_parens

\* NodeVisitor.visit(None)
visit_None == Visiting("None") /\ Emit(<<>>)

visit_unicode == Visiting("unicode") /\ Emit(CG_report_identifier(node.value))

visit_ArrayLiteral ==
    Visiting("ArrayLiteral") /\
    Emit(CG_report_literal("[") \o visit_comma_list(node.elements) \o CG_report_literal("]"))

visit_Assignment ==
    Visiting("Assignment") /\
    Emit(maybe_parens(node.target, node) \o CG_report_binary_op(node.op)
         \o maybe_parens(node.value, node))

visit_BinaryOperation ==
    Visiting("BinaryOperation") /\
    Emit(maybe_parens(node.left, node) \o CG_report_binary_op(node.op)
         \o (IF precedence(node.right) <= precedence(node)
             THEN parenthesize(node.right) ELSE Visit(node.right)))

visit_Block ==
    Visiting("Block") /\
    Emit(CG_report_literal("{") \o visit_statement_list(node.statements)
         \o CG_report_literal("}"))

visit_BracketProperty ==
    Visiting("BracketProperty") /\
    Emit(maybe_parens(node.object, node) \o CG_report_literal("[") \o Visit(node.key)
         \o CG_report_literal("]"))

visit_BreakStatement == Visiting("BreakStatement") /\ Emit(CG_report_keyword("break"))

visit_CallExpression ==
    Visiting("CallExpression") /\
    Emit(maybe_parens(node.expression, node) \o CG_report_literal("(")
         \o visit_comma_list(node.arguments) \o CG_report_literal(")"))

visit_CaseClause ==
    Visiting("CaseClause") /\
    Emit((IF node.label # NoNode THEN CG_report_keyword("case") \o Visit(node.label)
          ELSE CG_report_keyword("default"))
         \o CG_report_literal(":") \o visit_statement_list(node.statements))

visit_CompareOperation ==
    Visiting("CompareOperation") /\
    Emit(maybe_parens(node.left, node) \o CG_report_binary_op(node.op)
         \o maybe_parens(node.right, node))

visit_Conditional ==
    Visiting("Conditional") /\
    Emit(maybe_parens(node.condition, node) \o CG_report_literal("?")
         \o maybe_parens(node.then_expression, node) \o CG_report_literal(":")
         \o maybe_parens(node.else_expression, node))

visit_ContinueStatement ==
    Visiting("ContinueStatement") /\
    Emit(CG_report_keyword("continue") \o VisitName(node.target))

visit_DeleteOperation ==
    Visiting("DeleteOperation") /\
    Emit(CG_report_keyword("delete") \o Visit(node.expression))

visit_DoWhileStatement ==
    Visiting("DoWhileStatement") /\
    Emit(CG_report_keyword("do") \o maybe_semicolon(node.body)
         \o CG_report_keyword("while") \o parenthesize(node.condition))

visit_DotProperty ==
    Visiting("DotProperty") /\
    Emit(maybe_parens(node.object, node) \o CG_report_literal(".") \o Visit(node.key))

visit_Elision == Visiting("Elision") /\ Emit(<<>>)

visit_EmptyStatement == Visiting("EmptyStatement") /\ Emit(CG_report_literal(";"))

\* the node to the left of `n` in mark_leftmost_for_parens, None when there is none
LeftOf(n) ==
    IF n.type \in PropertyAccess THEN n.object
    ELSE IF n.type \in {"PostfixCountOperation", "CallExpression"} THEN n.expression
    ELSE IF n.type \in {"BinaryOperation", "CompareOperation"} THEN n.left
    ELSE IF n.type = "Assignment" THEN n.target
    ELSE NoNode

\* the nodes mark_leftmost_for_parens(n) adds to marked_for_parens
RECURSIVE mark_leftmost_for_parens(_)
mark_leftmost_for_parens(n) ==
    LET left == LeftOf(n)
    IN  IF precedence(n) > precedence(left) THEN {}
        ELSE IF left.type \in {"FunctionExpression", "ObjectLiteral"} THEN {left}
        ELSE IF left # NoNode THEN mark_leftmost_for_parens(left)
        ELSE {}

visit_ExpressionStatement ==
    /\ Visiting("ExpressionStatement")
    /\ marked_for_parens' = marked_for_parens \cup mark_leftmost_for_parens(node.expression)
    /\ Body(Visit(node.expression))

visit_FalseNode == Visiting("FalseNode") /\ Emit(CG_report_keyword("false"))

visit_ForInStatement ==
    Visiting("ForInStatement") /\
    Emit(CG_report_keyword("for") \o CG_report_literal("(") \o Visit(node.each)
         \o CG_report_keyword("in") \o Visit(node.enumerable) \o CG_report_literal(")")
         \o Visit(node.body))

visit_ForStatement ==
    Visiting("ForStatement") /\
    Emit(CG_report_keyword("for") \o CG_report_literal("(")
         \o (IF node.initialize.type = "CompareOperation" /\ node.initialize.op = "in"
             THEN parenthesize(node.initialize) ELSE Visit(node.initialize))
         \o CG_report_literal(";") \o Visit(node.condition) \o CG_report_literal(";")
         \o Visit(node.next) \o CG_report_literal(")") \o Visit(node.body))

visit_FunctionDeclaration ==
    Visiting("FunctionDeclaration") /\
    Emit(CG_report_keyword("function") \o VisitName(node.name) \o CG_report_literal("(")
         \o visit_comma_names(node.parameters) \o CG_report_literal(")")
         \o CG_report_literal("{") \o visit_statement_list(node.body)
         \o CG_report_literal("}"))

\* marked_for_parens.discard(node) / .remove(node), run when the handler's
\* last token has been reported
Discard(n) == <<[k |-> "discard", node |-> n]>>

discard_marked ==
    /\ work # <<>> /\ Head(work).k = "discard"
    /\ marked_for_parens' = marked_for_parens \ {Head(work).node}
    /\ Body(<<>>)

visit_FunctionExpression ==
    Visiting("FunctionExpression") /\
    LET parens == node \in marked_for_parens
    IN  Emit((IF parens THEN CG_report_literal("(") ELSE <<>>)
             \o CG_report_keyword("function") \o VisitName(node.name)
             \o CG_report_literal("(") \o visit_comma_names(node.parameters)
             \o CG_report_literal(")") \o CG_report_literal("{")
             \o visit_statement_list(node.body) \o CG_report_literal("}")
             \o (IF parens THEN CG_report_literal(")") \o Discard(node) ELSE <<>>))

visit_IfStatement ==
    Visiting("IfStatement") /\
    Emit(CG_report_keyword("if") \o parenthesize(node.condition) \o Visit(node.then_statement)
         \o (IF node.else_statement # NoNode
             THEN (IF needs_semicolon(node.then_statement)
                   THEN CG_report_literal(";") ELSE <<>>)
                  \o CG_report_keyword("else") \o Visit(node.else_statement)
             ELSE <<>>))

visit_LabelledStatement ==
    Visiting("LabelledStatement") /\
    Emit(CG_report_identifier(node.label) \o CG_report_literal(":") \o Visit(node.statement))

visit_Name == Visiting("Name") /\ Emit(CG_report_identifier(node.value))

visit_NewExpression ==
    Visiting("NewExpression") /\
    Emit(CG_report_keyword("new") \o maybe_parens(node.expression, node)
         \o (IF node.arguments # NoNode
             THEN CG_report_literal("(") \o visit_comma_list(node.arguments.items)
                  \o CG_report_literal(")")
             ELSE <<>>))

visit_NullNode == Visiting("NullNode") /\ Emit(CG_report_keyword("null"))

visit_NumberLiteral == Visiting("NumberLiteral") /\ Emit(CG_report_number(node.value))

visit_ObjectLiteral ==
    Visiting("ObjectLiteral") /\
    LET parens == node \in marked_for_parens
    IN  Emit((IF parens THEN CG_report_literal("(") ELSE <<>>)
             \o CG_report_literal("{") \o visit_comma_list(node.properties)
             \o CG_report_literal("}")
             \o (IF parens THEN CG_report_literal(")") \o Discard(node) ELSE <<>>))

visit_ObjectProperty ==
    Visiting("ObjectProperty") /\
    Emit(Visit(node.name) \o CG_report_literal(":") \o Visit(node.value))

visit_PostfixCountOperation ==
    Visiting("PostfixCountOperation") /\
    Emit(maybe_parens(node.expression, node) \o CG_report_postfix_op(node.op))

visit_PrefixCountOperation ==
    Visiting("PrefixCountOperation") /\
    Emit(CG_report_prefix_op(node.op) \o maybe_parens(node.expression, node))

visit_Program == Visiting("Program") /\ Emit(visit_statement_list(node.statements))

visit_PropertyName == Visiting("PropertyName") /\ Emit(CG_report_identifier(node.value))

visit_RegExpLiteral ==
    Visiting("RegExpLiteral") /\
    Emit(CG_report_regexp(node.pattern)
         \o (IF node.flags # "" THEN CG_report_identifier(node.flags) ELSE <<>>))

visit_ReturnStatement ==
    Visiting("ReturnStatement") /\
    Emit(CG_report_keyword("return") \o Visit(node.expression))

visit_StringLiteral ==
    Visiting("StringLiteral") /\ Emit(CG_report_token("STRING", node.value))

visit_SwitchStatement ==
    Visiting("SwitchStatement") /\
    LET cases == node.cases
        last(c) == c.statements[Len(c.statements)]
    IN  Emit(CG_report_keyword("switch") \o parenthesize(node.expression)
             \o CG_report_literal("{")
             \o Flatten([i \in 1..Len(cases) |->
                    Visit(cases[i])
                    \o (IF i < Len(cases) /\ cases[i].statements # <<>>
                           /\ needs_semicolon(last(cases[i]))
                        THEN CG_report_literal(";") ELSE <<>>)])
             \o CG_report_literal("}"))

visit_ThisNode == Visiting("ThisNode") /\ Emit(CG_report_keyword("this"))

visit_Throw ==
    Visiting("Throw") /\ Emit(CG_report_keyword("throw") \o Visit(node.exception))

visit_TrueNode == Visiting("TrueNode") /\ Emit(CG_report_keyword("true"))

visit_TryStatement ==
    Visiting("TryStatement") /\
    Emit(CG_report_keyword("try") \o Visit(node.try_block)
         \o (IF node.catch_var # NoNode
             THEN CG_report_keyword("catch") \o parenthesize(node.catch_var)
                  \o Visit(node.catch_block)
             ELSE <<>>)
         \o (IF node.finally_block # NoNode
             THEN CG_report_keyword("finally") \o Visit(node.finally_block)
             ELSE <<>>))

visit_TypeofOperation ==
    Visiting("TypeofOperation") /\
    Emit(CG_report_keyword("typeof") \o maybe_parens(node.expression, node))

visit_UnaryOperation ==
    Visiting("UnaryOperation") /\
    Emit(CG_report_unary_op(node.op) \o maybe_parens(node.expression, node))

visit_VariableDeclaration ==
    Visiting("VariableDeclaration") /\
    Emit(CG_report_identifier(node.name)
         \o (IF node.value # NoNode THEN CG_report_literal("=") \o Visit(node.value)
             ELSE <<>>))

visit_VariableStatement ==
    Visiting("VariableStatement") /\
    Emit(CG_report_keyword("var") \o visit_comma_list(node.declarations))

visit_VoidOperation ==
    Visiting("VoidOperation") /\
    Emit(CG_report_keyword("void") \o maybe_parens(node.expression, node))

visit_WhileStatement ==
    Visiting("WhileStatement") /\
    Emit(CG_report_keyword("while") \o parenthesize(node.condition) \o Visit(node.body))

visit_WithStatement ==
    Visiting("WithStatement") /\
    Emit(CG_report_keyword("with") \o parenthesize(node.expression)
         \o Visit(node.statement))

\* generate(ast): visit the tree, then report EOF
generate(tree) == Visit(tree) \o CG_report_token("EOF", "")

Generate ==
    \/ visit_None \/ visit_unicode \/ visit_ArrayLiteral \/ visit_Assignment
    \/ visit_BinaryOperation \/ visit_Block \/ visit_BracketProperty
    \/ visit_BreakStatement \/ visit_CallExpression \/ visit_CaseClause
    \/ visit_CompareOperation \/ visit_Conditional \/ visit_ContinueStatement
    \/ visit_DeleteOperation \/ visit_DoWhileStatement \/ visit_DotProperty
    \/ visit_Elision \/ visit_EmptyStatement \/ visit_ExpressionStatement
    \/ visit_FalseNode \/ visit_ForInStatement \/ visit_ForStatement
    \/ visit_FunctionDeclaration \/ discard_marked \/ visit_FunctionExpression
    \/ visit_IfStatement \/ visit_LabelledStatement \/ visit_Name
    \/ visit_NewExpression \/ visit_NullNode \/ visit_NumberLiteral
    \/ visit_ObjectLiteral \/ visit_ObjectProperty \/ visit_PostfixCountOperation
    \/ visit_PrefixCountOperation \/ visit_Program \/ visit_PropertyName
    \/ visit_RegExpLiteral \/ visit_ReturnStatement
    \/ visit_StringLiteral \/ visit_SwitchStatement \/ visit_ThisNode \/ visit_Throw
    \/ visit_TrueNode \/ visit_TryStatement \/ visit_TypeofOperation
    \/ visit_UnaryOperation \/ visit_VariableDeclaration \/ visit_VariableStatement
    \/ visit_VoidOperation \/ visit_WhileStatement \/ visit_WithStatement

(***************************************************************************)
(* The parser that produced the tree (bigrig, outside this repository),    *)
(* after the ECMAScript 5 grammar: a recursive descent over the lexer's    *)
(* tokens that builds the node classes above.  A semicolon may be left out *)
(* only before `}` and at the end of the input (there are no line breaks   *)
(* in minified output) and after the `)` of a do-while.                    *)
(***************************************************************************)

ParseError == [type |-> "ParseError"]

\* the texts of more than one character, for reading a text back
LongTexts ==
    DOMAIN KEYWORD_TO_TYPE \cup Punctuators \cup RESERVED_NAMES \cup {"eval", "'s'", "/r/"}

\* the text with the given characters
Str(chars) ==
    IF Len(chars) = 1 THEN chars[1]
    ELSE IF \E t \in LongTexts : Chars(t) = chars
         THEN CHOOSE t \in LongTexts : Chars(t) = chars
         ELSE "?"

\* a parse: the node, the index of the next token, and whether the node was
\* derived as a LeftHandSideExpression
Res(n, i, lhs) == [node |-> n, pos |-> i, lhs |-> lhs]
Fail == Res(ParseError, 0, FALSE)
Ok(r) == r.node # ParseError
\* a parsed list
ResList(items, i) == [items |-> items, pos |-> i, ok |-> TRUE]
FailList == [items |-> <<>>, pos |-> 0, ok |-> FALSE]

TypeAt(toks, i) == IF i >= 1 /\ i <= Len(toks) THEN toks[i].type ELSE "EOF"
TextAt(toks, i) == Str(toks[i].value)

AssignTypes ==
    {"ASSIGN", "ASSIGN_BITOR", "ASSIGN_BITXOR", "ASSIGN_BITAND", "ASSIGN_LSH", "ASSIGN_RSH",
     "ASSIGN_URSH", "ASSIGN_ADD", "ASSIGN_SUB", "ASSIGN_MUL", "ASSIGN_DIV", "ASSIGN_MOD"}

\* the level of a binary operator in the grammar, 0 for any other token
GrammarLevel(type) ==
    CASE type = "OR" -> 4
      [] type = "AND" -> 5
      [] type = "BITOR" -> 6
      [] type = "BITXOR" -> 7
      [] type = "BITAND" -> 8
      [] type \in {"EQ", "NE", "SHEQ", "SHNE"} -> 9
      [] type \in {"LT", "GT", "LE", "GE", "INSTANCEOF", "IN"} -> 10
      [] type \in {"LSH", "RSH", "URSH"} -> 11
      [] type \in {"ADD", "SUB"} -> 12
      [] type \in {"MUL", "DIV", "MOD"} -> 13
      [] OTHER -> 0

\* the end of a statement: a semicolon, or none before `}` and at the end
EndStatement(toks, i) ==
    IF TypeAt(toks, i) = "SEMICOLON" THEN i + 1
    ELSE IF TypeAt(toks, i) \in {"RBRACE", "EOF"} THEN i
    ELSE 0

\* an identifier name after `.` or as a property name: keywords are allowed
IsIdentifierName(type) ==
    type \in {"IDENTIFIER", "RESERVED"} \cup {KEYWORD_TO_TYPE[k] : k \in DOMAIN KEYWORD_TO_TYPE}

RECURSIVE ParseStatement(_, _), ParseStatements(_, _), ParseExpression(_, _, _),
          ParseExpressionRest(_, _, _), ParseAssignment(_, _, _), ParseConditional(_, _, _),
          ParseBinary(_, _, _, _), ParseBinaryRest(_, _, _, _), ParseUnary(_, _),
          ParsePostfix(_, _), ParseLeftHandSide(_, _), ParseCallRest(_, _),
          ParseMember(_, _), ParseMemberRest(_, _), ParsePrimary(_, _),
          ParseArguments(_, _), ParseElements(_, _), ParseProperties(_, _),
          ParseFunction(_, _, _), ParseParameters(_, _), ParseDeclarations(_, _, _),
          ParseCases(_, _), ParseFor(_, _)

\* ( Expression ) from the `(` at i
ParseParenthesized(toks, i) ==
    IF TypeAt(toks, i) # "LPAREN" THEN Fail
    ELSE LET e == ParseExpression(toks, i + 1, FALSE)
         IN  IF Ok(e) /\ TypeAt(toks, e.pos) = "RPAREN" THEN Res(e.node, e.pos + 1, TRUE)
             ELSE Fail

ParsePrimary(toks, i) ==
    LET t == TypeAt(toks, i) IN
    CASE t = "THIS" -> Res(ThisNode, i + 1, TRUE)
      [] t = "NULL" -> Res(NullNode, i + 1, TRUE)
      [] t = "TRUE" -> Res(TrueNode, i + 1, TRUE)
      [] t = "FALSE" -> Res(FalseNode, i + 1, TRUE)
      [] t = "IDENTIFIER" -> Res(Name(TextAt(toks, i)), i + 1, TRUE)
      [] t = "DECIMAL" -> Res(NumberLiteral(TextAt(toks, i)), i + 1, TRUE)
      [] t = "STRING" -> Res(StringLiteral(TextAt(toks, i)), i + 1, TRUE)
      [] t = "REGEXP" ->
            IF TypeAt(toks, i + 1) = "IDENTIFIER"
            THEN Res(RegExpLiteral(TextAt(toks, i), TextAt(toks, i + 1)), i + 2, TRUE)
            ELSE Res(RegExpLiteral(TextAt(toks, i), ""), i + 1, TRUE)
      [] t = "LBRACKET" ->
            LET l == ParseElements(toks, i + 1)
            IN  IF l.ok THEN Res(ArrayLiteral(l.items), l.pos, TRUE) ELSE Fail
      [] t = "LBRACE" ->
            LET l == ParseProperties(toks, i + 1)
            IN  IF l.ok THEN Res(ObjectLiteral(l.items), l.pos, TRUE) ELSE Fail
      [] t = "LPAREN" -> ParseParenthesized(toks, i)
      [] OTHER -> Fail

\* the elements of an array literal up to and including `]`
ParseElements(toks, i) ==
    LET t == TypeAt(toks, i) IN
    IF t = "RBRACKET" THEN ResList(<<>>, i + 1)
    ELSE IF t = "COMMA" THEN
        LET r == ParseElements(toks, i + 1)
        IN  IF r.ok THEN ResList(<<Elision>> \o r.items, r.pos) ELSE FailList
    ELSE
        LET e == ParseAssignment(toks, i, FALSE)
            u == TypeAt(toks, e.pos)
            r == ParseElements(toks, IF u = "COMMA" THEN e.pos + 1 ELSE e.pos)
        IN  IF ~Ok(e) \/ u \notin {"COMMA", "RBRACKET"} THEN FailList
            ELSE IF r.ok THEN ResList(<<e.node>> \o r.items, r.pos) ELSE FailList

\* the properties of an object literal up to and including `}`
ParseProperties(toks, i) ==
    LET t == TypeAt(toks, i) IN
    IF t = "RBRACE" THEN ResList(<<>>, i + 1)
    ELSE IF ~(IsIdentifierName(t) \/ t \in {"STRING", "DECIMAL"}) \/ TypeAt(toks, i + 1) # "COLON"
        THEN FailList
    ELSE
        LET name == IF t = "STRING" THEN StringLiteral(TextAt(toks, i))
                    ELSE IF t = "DECIMAL" THEN NumberLiteral(TextAt(toks, i))
                    ELSE PropertyName(TextAt(toks, i))
            e == ParseAssignment(toks, i + 2, FALSE)
            u == TypeAt(toks, e.pos)
            r == ParseProperties(toks, IF u = "COMMA" THEN e.pos + 1 ELSE e.pos)
        IN  IF ~Ok(e) \/ u \notin {"COMMA", "RBRACE"} THEN FailList
            ELSE IF r.ok THEN ResList(<<ObjectProperty(name, e.node)>> \o r.items, r.pos)
            ELSE FailList

\* the arguments of a call after its `(`, up to and including `)`
ParseArguments(toks, i) ==
    IF TypeAt(toks, i) = "RPAREN" THEN ResList(<<>>, i + 1)
    ELSE
        LET e == ParseAssignment(toks, i, FALSE)
            u == TypeAt(toks, e.pos)
            r == ParseArguments(toks, e.pos + 1)
        IN  IF ~Ok(e) THEN FailList
            ELSE IF u = "RPAREN" THEN ResList(<<e.node>>, e.pos + 1)
            ELSE IF u = "COMMA" /\ TypeAt(toks, e.pos + 1) # "RPAREN" /\ r.ok
                 THEN ResList(<<e.node>> \o r.items, r.pos)
            ELSE FailList

\* the parameter names after `(`, up to and including `)`
ParseParameters(toks, i) ==
    IF TypeAt(toks, i) = "RPAREN" THEN ResList(<<>>, i + 1)
    ELSE IF TypeAt(toks, i) # "IDENTIFIER" THEN FailList
    ELSE IF TypeAt(toks, i + 1) = "RPAREN" THEN ResList(<<TextAt(toks, i)>>, i + 2)
    ELSE IF TypeAt(toks, i + 1) = "COMMA" /\ TypeAt(toks, i + 2) = "IDENTIFIER"
        THEN LET r == ParseParameters(toks, i + 2)
             IN  IF r.ok THEN ResList(<<TextAt(toks, i)>> \o r.items, r.pos) ELSE FailList
    ELSE FailList

\* a function from its `function` keyword at i
ParseFunction(toks, i, declaration) ==
    LET named == TypeAt(toks, i + 1) = "IDENTIFIER"
        name == IF named THEN TextAt(toks, i + 1) ELSE ""
        j == IF named THEN i + 2 ELSE i + 1
        ps == ParseParameters(toks, j + 1)
        body == ParseStatements(toks, ps.pos + 1)
    IN  IF (declaration /\ ~named) \/ TypeAt(toks, j) # "LPAREN" \/ ~ps.ok
           \/ TypeAt(toks, ps.pos) # "LBRACE" \/ ~body.ok
           \/ TypeAt(toks, body.pos) # "RBRACE"
        THEN Fail
        ELSE IF declaration
             THEN Res(FunctionDeclaration(name, ps.items, body.items), body.pos + 1, FALSE)
             ELSE Res(FunctionExpression(name, ps.items, body.items), body.pos + 1, TRUE)

\* property accesses after a member expression
ParseMemberRest(toks, m) ==
    IF ~Ok(m) THEN Fail
    ELSE IF TypeAt(toks, m.pos) = "DOT" THEN
        IF IsIdentifierName(TypeAt(toks, m.pos + 1))
        THEN ParseMemberRest(toks,
                Res(DotProperty(m.node, Name(TextAt(toks, m.pos + 1))), m.pos + 2, TRUE))
        ELSE Fail
    ELSE IF TypeAt(toks, m.pos) = "LBRACKET" THEN
        LET e == ParseExpression(toks, m.pos + 1, FALSE)
        IN  IF Ok(e) /\ TypeAt(toks, e.pos) = "RBRACKET"
            THEN ParseMemberRest(toks, Res(BracketProperty(m.node, e.node), e.pos + 1, TRUE))
            ELSE Fail
    ELSE m

\* MemberExpression, and NewExpression without arguments
ParseMember(toks, i) ==
    LET t == TypeAt(toks, i) IN
    IF t = "NEW" THEN
        LET inner == ParseMember(toks, i + 1)
            args == ParseArguments(toks, inner.pos + 1)
        IN  IF ~Ok(inner) THEN Fail
            ELSE IF TypeAt(toks, inner.pos) = "LPAREN"
                 THEN (IF args.ok
                       THEN ParseMemberRest(toks,
                                Res(NewExpression(inner.node, NodeList(args.items)),
                                    args.pos, TRUE))
                       ELSE Fail)
            ELSE Res(NewExpression(inner.node, NoNode), inner.pos, TRUE)
    ELSE IF t = "FUNCTION" THEN ParseMemberRest(toks, ParseFunction(toks, i, FALSE))
    ELSE ParseMemberRest(toks, ParsePrimary(toks, i))

\* calls and property accesses after a member expression
ParseCallRest(toks, m) ==
    IF ~Ok(m) THEN Fail
    ELSE IF TypeAt(toks, m.pos) = "LPAREN" THEN
        LET args == ParseArguments(toks, m.pos + 1)
        IN  IF args.ok
            THEN ParseCallRest(toks, Res(CallExpression(m.node, args.items), args.pos, TRUE))
            ELSE Fail
    ELSE IF TypeAt(toks, m.pos) \in {"DOT", "LBRACKET"} THEN
        LET r == ParseMemberRest(toks, m)
        IN  IF Ok(r) THEN ParseCallRest(toks, r) ELSE Fail
    ELSE m

ParseLeftHandSide(toks, i) == ParseCallRest(toks, ParseMember(toks, i))

ParsePostfix(toks, i) ==
    LET l == ParseLeftHandSide(toks, i) IN
    IF Ok(l) /\ TypeAt(toks, l.pos) \in {"INC", "DEC"}
    THEN Res(PostfixCountOperation(l.node, TextAt(toks, l.pos)), l.pos + 1, FALSE)
    ELSE l

ParseUnary(toks, i) ==
    LET t == TypeAt(toks, i)
        e == ParseUnary(toks, i + 1)
    IN  IF t \in {"DELETE", "VOID", "TYPEOF", "INC", "DEC", "ADD", "SUB", "BITNOT", "NOT"} THEN
            IF ~Ok(e) THEN Fail
            ELSE Res(CASE t = "DELETE" -> DeleteOperation(e.node)
                       [] t = "VOID" -> VoidOperation(e.node)
                       [] t = "TYPEOF" -> TypeofOperation(e.node)
                       [] t \in {"INC", "DEC"} -> PrefixCountOperation(TextAt(toks, i), e.node)
                       [] OTHER -> UnaryOperation(TextAt(toks, i), e.node),
                     e.pos, FALSE)
        ELSE ParsePostfix(toks, i)

\* binary operators of level >= min applied to `left`, left-associative
ParseBinaryRest(toks, left, min, noIn) ==
    LET t == TypeAt(toks, left.pos)
        p == GrammarLevel(t)
        right == ParseBinary(toks, left.pos + 1, p + 1, noIn)
        op == TextAt(toks, left.pos)
    IN  IF ~Ok(left) THEN Fail
        ELSE IF p = 0 \/ p < min \/ (noIn /\ t = "IN") THEN left
        ELSE IF ~Ok(right) THEN Fail
        ELSE ParseBinaryRest(toks,
                Res(IF p \in {9, 10} THEN CompareOperation(left.node, op, right.node)
                    ELSE BinaryOperation(left.node, op, right.node),
                    right.pos, FALSE),
                min, noIn)

ParseBinary(toks, i, min, noIn) == ParseBinaryRest(toks, ParseUnary(toks, i), min, noIn)

ParseConditional(toks, i, noIn) ==
    LET c == ParseBinary(toks, i, 4, noIn)
        a == ParseAssignment(toks, c.pos + 1, FALSE)
        b == ParseAssignment(toks, a.pos + 1, noIn)
    IN  IF ~Ok(c) THEN Fail
        ELSE IF TypeAt(toks, c.pos) # "QUESTION" THEN c
        ELSE IF Ok(a) /\ TypeAt(toks, a.pos) = "COLON" /\ Ok(b)
             THEN Res(Conditional(c.node, a.node, b.node), b.pos, FALSE)
        ELSE Fail

ParseAssignment(toks, i, noIn) ==
    LET c == ParseConditional(toks, i, noIn)
        v == ParseAssignment(toks, c.pos + 1, noIn)
    IN  IF ~Ok(c) THEN Fail
        ELSE IF TypeAt(toks, c.pos) \notin AssignTypes THEN c
        ELSE IF c.lhs /\ Ok(v)
             THEN Res(Assignment(c.node, TextAt(toks, c.pos), v.node), v.pos, FALSE)
        ELSE Fail

\* comma operators applied to `left`
ParseExpressionRest(toks, left, noIn) ==
    LET right == ParseAssignment(toks, left.pos + 1, noIn) IN
    IF ~Ok(left) THEN Fail
    ELSE IF TypeAt(toks, left.pos) # "COMMA" THEN left
    ELSE IF ~Ok(right) THEN Fail
    ELSE ParseExpressionRest(toks,
            Res(BinaryOperation(left.node, ",", right.node), right.pos, FALSE), noIn)

ParseExpression(toks, i, noIn) ==
    ParseExpressionRest(toks, ParseAssignment(toks, i, noIn), noIn)

\* the declarations of a var statement
ParseDeclarations(toks, i, noIn) ==
    LET init == TypeAt(toks, i + 1) = "ASSIGN"
        v == ParseAssignment(toks, i + 2, noIn)
        j == IF init THEN v.pos ELSE i + 1
        d == VariableDeclaration(TextAt(toks, i), IF init THEN v.node ELSE NoNode)
        r == ParseDeclarations(toks, j + 1, noIn)
    IN  IF TypeAt(toks, i) # "IDENTIFIER" \/ (init /\ ~Ok(v)) THEN FailList
        ELSE IF TypeAt(toks, j) # "COMMA" THEN ResList(<<d>>, j)
        ELSE IF r.ok THEN ResList(<<d>> \o r.items, r.pos)
        ELSE FailList

\* the case clauses of a switch up to and including `}`
ParseCases(toks, i) ==
    LET t == TypeAt(toks, i)
        l == ParseExpression(toks, i + 1, FALSE)
        j == IF t = "CASE" THEN l.pos ELSE i + 1
        ss == ParseStatements(toks, j + 1)
        r == ParseCases(toks, ss.pos)
    IN  IF t = "RBRACE" THEN ResList(<<>>, i + 1)
        ELSE IF t \notin {"CASE", "DEFAULT"} \/ (t = "CASE" /\ ~Ok(l))
                \/ TypeAt(toks, j) # "COLON" \/ ~ss.ok \/ ~r.ok
             THEN FailList
        ELSE ResList(<<CaseClause(IF t = "CASE" THEN l.node ELSE NoNode, ss.items)>>
                     \o r.items, r.pos)

\* a for or for-in statement from its `for` keyword at i
ParseFor(toks, i) ==
    LET j == i + 2
        isVar == TypeAt(toks, j) = "VAR"
        ds == ParseDeclarations(toks, j + 1, TRUE)
        e == ParseExpression(toks, j, TRUE)
        noInit == TypeAt(toks, j) = "SEMICOLON"
        init == IF noInit THEN Res(NoNode, j, FALSE)
                ELSE IF isVar
                     THEN (IF ds.ok THEN Res(VariableStatement(ds.items), ds.pos, TRUE)
                           ELSE Fail)
                ELSE e
        \* for ( init ; condition ; next ) body
        c == IF TypeAt(toks, init.pos + 1) = "SEMICOLON" THEN Res(NoNode, init.pos + 1, FALSE)
             ELSE ParseExpression(toks, init.pos + 1, FALSE)
        n == IF TypeAt(toks, c.pos + 1) = "RPAREN" THEN Res(NoNode, c.pos + 1, FALSE)
             ELSE ParseExpression(toks, c.pos + 1, FALSE)
        body == ParseStatement(toks, n.pos + 1)
        \* for ( each in enumerable ) body
        en == ParseExpression(toks, init.pos + 1, FALSE)
        inBody == ParseStatement(toks, en.pos + 1)
    IN  IF TypeAt(toks, i + 1) # "LPAREN" \/ ~Ok(init) THEN Fail
        ELSE IF TypeAt(toks, init.pos) = "IN" /\ ~noInit THEN
            IF init.lhs /\ (isVar => Len(ds.items) = 1) /\ Ok(en)
               /\ TypeAt(toks, en.pos) = "RPAREN" /\ Ok(inBody)
            THEN Res(ForInStatement(init.node, en.node, inBody.node), inBody.pos, FALSE)
            ELSE Fail
        ELSE IF TypeAt(toks, init.pos) = "SEMICOLON" /\ Ok(c)
                /\ TypeAt(toks, c.pos) = "SEMICOLON" /\ Ok(n)
                /\ TypeAt(toks, n.pos) = "RPAREN" /\ Ok(body)
             THEN Res(ForStatement(init.node, c.node, n.node, body.node), body.pos, FALSE)
        ELSE Fail

\* the statements up to `}`, `case`, `default` or the end of the input
ParseStatements(toks, i) ==
    IF TypeAt(toks, i) \in {"RBRACE", "EOF", "CASE", "DEFAULT"} THEN ResList(<<>>, i)
    ELSE LET st == ParseStatement(toks, i)
             r == ParseStatements(toks, st.pos)
         IN  IF Ok(st) /\ r.ok THEN ResList(<<st.node>> \o r.items, r.pos) ELSE FailList

\* `node` built when the statement ends at token index j
Ended(toks, n, j) ==
    IF EndStatement(toks, j) = 0 THEN Fail ELSE Res(n, EndStatement(toks, j), FALSE)

ParseStatement(toks, i) ==
    LET t == TypeAt(toks, i) IN
    CASE t = "LBRACE" ->
            LET b == ParseStatements(toks, i + 1)
            IN  IF b.ok /\ TypeAt(toks, b.pos) = "RBRACE"
                THEN Res(Block(b.items), b.pos + 1, FALSE) ELSE Fail
      [] t = "VAR" ->
            LET ds == ParseDeclarations(toks, i + 1, FALSE)
            IN  IF ds.ok THEN Ended(toks, VariableStatement(ds.items), ds.pos) ELSE Fail
      [] t = "SEMICOLON" -> Res(EmptyStatement, i + 1, FALSE)
      [] t = "IF" ->
            LET c == ParseParenthesized(toks, i + 1)
                th == ParseStatement(toks, c.pos)
                el == ParseStatement(toks, th.pos + 1)
            IN  IF ~Ok(c) \/ ~Ok(th) THEN Fail
                ELSE IF TypeAt(toks, th.pos) # "ELSE"
                     THEN Res(IfStatement(c.node, th.node, NoNode), th.pos, FALSE)
                ELSE IF Ok(el) THEN Res(IfStatement(c.node, th.node, el.node), el.pos, FALSE)
                ELSE Fail
      [] t = "DO" ->
            LET b == ParseStatement(toks, i + 1)
                c == ParseParenthesized(toks, b.pos + 1)
            IN  IF Ok(b) /\ TypeAt(toks, b.pos) = "WHILE" /\ Ok(c)
                THEN Res(DoWhileStatement(b.node, c.node),
                         IF TypeAt(toks, c.pos) = "SEMICOLON" THEN c.pos + 1 ELSE c.pos, FALSE)
                ELSE Fail
      [] t = "WHILE" ->
            LET c == ParseParenthesized(toks, i + 1)
                b == ParseStatement(toks, c.pos)
            IN  IF Ok(c) /\ Ok(b) THEN Res(WhileStatement(c.node, b.node), b.pos, FALSE)
                ELSE Fail
      [] t = "FOR" -> ParseFor(toks, i)
      [] t \in {"CONTINUE", "BREAK"} ->
            LET labelled == TypeAt(toks, i + 1) = "IDENTIFIER"
                target == IF labelled THEN TextAt(toks, i + 1) ELSE ""
            IN  Ended(toks, IF t = "BREAK" THEN BreakStatement(target)
                            ELSE ContinueStatement(target),
                      IF labelled THEN i + 2 ELSE i + 1)
      [] t = "RETURN" ->
            LET e == ParseExpression(toks, i + 1, FALSE)
            IN  IF EndStatement(toks, i + 1) # 0
                THEN Ended(toks, ReturnStatement(NoNode), i + 1)
                ELSE IF Ok(e) THEN Ended(toks, ReturnStatement(e.node), e.pos) ELSE Fail
      [] t = "WITH" ->
            LET c == ParseParenthesized(toks, i + 1)
                b == ParseStatement(toks, c.pos)
            IN  IF Ok(c) /\ Ok(b) THEN Res(WithStatement(c.node, b.node), b.pos, FALSE)
                ELSE Fail
      [] t = "SWITCH" ->
            LET c == ParseParenthesized(toks, i + 1)
                cs == ParseCases(toks, c.pos + 1)
            IN  IF Ok(c) /\ TypeAt(toks, c.pos) = "LBRACE" /\ cs.ok
                THEN Res(SwitchStatement(c.node, cs.items), cs.pos, FALSE) ELSE Fail
      [] t = "THROW" ->
            LET e == ParseExpression(toks, i + 1, FALSE)
            IN  IF Ok(e) THEN Ended(toks, Throw(e.node), e.pos) ELSE Fail
      [] t = "TRY" ->
            LET b == ParseStatement(toks, i + 1)
                caught == TypeAt(toks, b.pos) = "CATCH"
                v == ParseParenthesized(toks, b.pos + 1)
                cb == ParseStatement(toks, v.pos)
                j == IF caught THEN cb.pos ELSE b.pos
                final == TypeAt(toks, j) = "FINALLY"
                fb == ParseStatement(toks, j + 1)
            IN  IF TypeAt(toks, i + 1) # "LBRACE" \/ ~Ok(b)
                   \/ (caught /\ ~(Ok(v) /\ v.node.type = "Name"
                                   /\ TypeAt(toks, v.pos) = "LBRACE" /\ Ok(cb)))
                   \/ (final /\ ~(TypeAt(toks, j + 1) = "LBRACE" /\ Ok(fb)))
                   \/ (~caught /\ ~final)
                THEN Fail
                ELSE Res(TryStatement(b.node, IF caught THEN v.node ELSE NoNode,
                                      IF caught THEN cb.node ELSE NoNode,
                                      IF final THEN fb.node ELSE NoNode),
                         IF final THEN fb.pos ELSE j, FALSE)
      [] t = "FUNCTION" -> ParseFunction(toks, i, TRUE)
      [] t = "IDENTIFIER" /\ TypeAt(toks, i + 1) = "COLON" ->
            LET b == ParseStatement(toks, i + 2)
            IN  IF Ok(b) THEN Res(LabelledStatement(TextAt(toks, i), b.node), b.pos, FALSE)
                ELSE Fail
      [] OTHER ->
            LET e == ParseExpression(toks, i, FALSE)
            IN  IF Ok(e) THEN Ended(toks, ExpressionStatement(e.node), e.pos) ELSE Fail

\* the Program of a token sequence, or ParseError
Parse(toks) ==
    LET ss == ParseStatements(toks, 1)
    IN  IF ss.ok /\ ss.pos = Len(toks) + 1 THEN Program(ss.items) ELSE ParseError

(***************************************************************************)
(* The trees handed to the generator.                                      *)
(***************************************************************************)

\* how many loop, with and if statements are nested around a statement
MaxWrap == 2
\* how long the chain of left operands under an expression statement is
MaxChain == 2

a == Name("a")
b == Name("b")
c == Name("c")

Primaries ==
    {a, NumberLiteral("1"), StringLiteral("'s'"), RegExpLiteral("/r/", ""), ThisNode,
     NullNode, TrueNode, FalseNode, ArrayLiteral(<<>>), ObjectLiteral(<<>>),
     FunctionExpression("", <<>>, <<>>)}

\* what the grammar allows as an assignment target and as the operand of ++ and --
IsReference(x) == x.type \in {"Name", "DotProperty", "BracketProperty"}

\* every expression with x as one operand and names as the others
Slots(x) ==
    {Assignment(b, op, x) : op \in {"=", "+="}}
    \cup (IF IsReference(x)
          THEN {Assignment(x, "=", b)}
               \cup {PrefixCountOperation(op, x) : op \in {"++", "--"}}
               \cup {PostfixCountOperation(x, op) : op \in {"++", "--"}}
          ELSE {})
    \cup {Conditional(x, b, c), Conditional(b, x, c), Conditional(b, c, x)}
    \cup UNION {{BinaryOperation(x, op, b), BinaryOperation(b, op, x)} :
                    op \in {",", "||", "+", "-", "*", "/"}}
    \cup UNION {{CompareOperation(x, op, b), CompareOperation(b, op, x)} :
                    op \in {"==", "<", "in"}}
    \cup {UnaryOperation(op, x) : op \in {"!", "+", "-"}}
    \cup {TypeofOperation(x), DeleteOperation(x), VoidOperation(x)}
    \cup {CallExpression(x, <<>>), CallExpression(b, <<x>>), CallExpression(b, <<x, c>>)}
    \cup {NewExpression(x, NoNode), NewExpression(x, NodeList(<<>>)),
          NewExpression(b, NodeList(<<x>>))}
    \cup {DotProperty(x, b), BracketProperty(x, b), BracketProperty(b, x)}
    \cup {ArrayLiteral(<<x>>), ArrayLiteral(<<x, b>>),
          ObjectLiteral(<<ObjectProperty(PropertyName("b"), x)>>)}

\* the expressions of one operator, and of two nested operators
Level1 == Primaries \cup Slots(a)
Level2 == UNION {Slots(x) : x \in Level1}

\* the expressions with x as the left operand
LeftSlots(x) ==
    {DotProperty(x, b), BracketProperty(x, b), CallExpression(x, <<>>),
     BinaryOperation(x, ",", b), CompareOperation(x, "<", b), Conditional(x, b, c)}
    \cup (IF IsReference(x) THEN {Assignment(x, "=", b), PostfixCountOperation(x, "++")}
          ELSE {})

RECURSIVE Chains(_)
Chains(n) ==
    IF n = 0 THEN {a, ObjectLiteral(<<>>), FunctionExpression("", <<>>, <<>>)}
    ELSE Chains(n - 1) \cup UNION {LeftSlots(x) : x \in Chains(n - 1)}

Expressions == Level1 \cup Level2 \cup Chains(MaxChain)

Stmt(e) == ExpressionStatement(e)

\* the statements that hold no statement
Simple ==
    {Stmt(a), EmptyStatement, Block(<<>>), VariableStatement(<<VariableDeclaration("a", b)>>),
     ReturnStatement(a), ReturnStatement(NoNode), BreakStatement(""), ContinueStatement(""),
     Throw(a), DoWhileStatement(Stmt(a), b)}

\* the statements around a statement s
Wraps(s) ==
    {IfStatement(a, s, NoNode), IfStatement(a, Block(<<>>), s), WhileStatement(a, s),
     WithStatement(a, s), ForStatement(NoNode, NoNode, NoNode, s)}

RECURSIVE Wrapped(_)
Wrapped(n) ==
    IF n = 0 THEN Simple ELSE Wrapped(n - 1) \cup UNION {Wraps(s) : s \in Wrapped(n - 1)}

\* one of each remaining shape
Others ==
    {ForInStatement(a, b, Stmt(c)),
     ForInStatement(VariableStatement(<<VariableDeclaration("a", NoNode)>>), b, Block(<<>>)),
     ForStatement(VariableStatement(<<VariableDeclaration("a", b)>>), a, c, Stmt(a)),
     LabelledStatement("a", WhileStatement(b, ContinueStatement("a"))),
     LabelledStatement("a", WhileStatement(b, BreakStatement("a"))),
     IfStatement(a, Stmt(b), Stmt(c)),
     Block(<<Stmt(a), Stmt(b)>>),
     DoWhileStatement(Block(<<>>), a),
     VariableStatement(<<VariableDeclaration("a", NoNode), VariableDeclaration("b", c)>>),
     SwitchStatement(a, <<CaseClause(b, <<Stmt(a)>>), CaseClause(NoNode, <<Stmt(b)>>)>>),
     SwitchStatement(a, <<CaseClause(b, <<>>), CaseClause(c, <<Block(<<>>)>>)>>),
     TryStatement(Block(<<>>), a, Block(<<Stmt(b)>>), NoNode),
     TryStatement(Block(<<>>), NoNode, NoNode, Block(<<>>)),
     TryStatement(Block(<<Stmt(a)>>), a, Block(<<>>), Block(<<>>)),
     FunctionDeclaration("f", <<>>, <<>>),
     FunctionDeclaration("f", <<"a", "b">>, <<ReturnStatement(a), Stmt(b)>>),
     Stmt(FunctionExpression("f", <<"a">>, <<ReturnStatement(a)>>)),
     Stmt(CallExpression(FunctionExpression("", <<>>, <<Stmt(a)>>), <<>>)),
     Stmt(ArrayLiteral(<<Elision, a>>)),
     Stmt(ArrayLiteral(<<a, Elision, b>>)),
     Stmt(RegExpLiteral("/r/", "g")),
     Stmt(ObjectLiteral(<<ObjectProperty(StringLiteral("'s'"), a),
                          ObjectProperty(NumberLiteral("1"), b)>>))}
    \cup {ForStatement(x, NoNode, NoNode, EmptyStatement) : x \in Level1}
    \cup {VariableStatement(<<VariableDeclaration("a", x)>>) : x \in Level1}

Statements == {Stmt(e) : e \in Expressions} \cup Wrapped(MaxWrap) \cup Others

\* the programs: one statement, alone or followed by another
Programs ==
    {Program(<<s>>) : s \in Statements}
    \cup {Program(<<s, Stmt(b)>>) : s \in Wrapped(MaxWrap) \cup Others}

(***************************************************************************)
(* The pipeline of write_ast: generate_code(ast, consumer) on a print      *)
(* consumer.                                                               *)
(***************************************************************************)

Init ==
    /\ ast \in Programs
    /\ work = generate(ast)
    /\ marked_for_parens = {}
    /\ last_token = NoToken
    /\ stream = <<>>
    /\ calls = <<>>
    /\ written = <<>>
    /\ self_index = 0
    /\ drawn = <<>>
    /\ returned = NoNode
    /\ generate_calls = <<>>
    /\ scopes = <<>>
    /\ scope = NoScope
    /\ node_scope = <<>>
    /\ renamed = <<>>

Next == Generate \/ Consume

Spec == Init /\ [][Next]_vars

\* generate() has returned
Done == work = <<>>

(***************************************************************************)
(* The consumer alone: any sequence of report_* calls.                     *)
(***************************************************************************)

\* how many report_* calls a caller of the consumer makes
MaxCalls == 2

\* one text of each token kind
TextOf(type) ==
    CASE type = "IDENTIFIER" -> "a" [] type = "RESERVED" -> "class"
      [] type = "DECIMAL" -> "1" [] type = "ADD" -> "+" [] type = "SUB" -> "-"
      [] type = "INC" -> "++" [] type = "DEC" -> "--"
      [] OTHER -> CHOOSE k \in DOMAIN KEYWORD_TO_TYPE : KEYWORD_TO_TYPE[k] = type

KeywordTypes == {KEYWORD_TO_TYPE[k] : k \in DOMAIN KEYWORD_TO_TYPE}

\* the calls a caller may make: the five methods MinifiedPrintConsumer
\* overrides with the kinds their tests read, report_keyword with every
\* keyword, and the inherited methods
ReportCalls ==
    {[k |-> "report", m |-> m, token |-> Token(type, TextOf(type))] :
        m \in {"number", "identifier", "keyword", "prefix_op", "unary_op"},
        type \in {"RETURN", "IDENTIFIER", "RESERVED", "DECIMAL", "ADD", "SUB", "INC", "DEC"}}
    \cup {[k |-> "report", m |-> "keyword", token |-> Token(type, TextOf(type))] :
            type \in KeywordTypes}
    \cup {[k |-> "report", m |-> m, token |-> Token(type, TextOf(type))] :
            m \in {"token", "literal", "binary_op", "postfix_op", "regexp"},
            type \in {"IDENTIFIER", "DECIMAL", "ADD", "SUB"}}

InitSink ==
    /\ ast = NoNode
    /\ work \in UNION {[1..n -> ReportCalls] : n \in 1..MaxCalls}
    /\ marked_for_parens = {}
    /\ last_token = NoToken
    /\ stream = <<>>
    /\ calls = <<>>
    /\ written = <<>>
    /\ self_index = 0
    /\ drawn = <<>>
    /\ returned = NoNode
    /\ generate_calls = <<>>
    /\ scopes = <<>>
    /\ scope = NoScope
    /\ node_scope = <<>>
    /\ renamed = <<>>

SpecSink == InitSink /\ [][Consume]_vars

(***************************************************************************)
(* Properties of the generator and the consumer.                           *)
(***************************************************************************)

\* the tokens reported to the consumer, without the EOF that ends them
Reported ==
    SelectSeq([i \in 1..Len(calls) |-> calls[i].token], LAMBDA t : t.type # "EOF")

\* C1: when generate() has returned, parsing the tokens of the written text
\* gives back the tree that was handed to the generator.
C1_RoundTrip == Done => Parse(Lex(stream)) = ast

\* C2: when generate() has returned, lexing the written text gives exactly
\* the tokens that were reported, kind and text.
C2_Relex == Done => Lex(stream) = Reported

\* the kinds after which a number, identifier or keyword is set off by a space
LiteralClass == KeywordTypes \cup {"IDENTIFIER", "RESERVED"}

\* whether a space belongs before `token` reported through method m when the
\* token written last has kind `prev`
SpaceBefore(m, token, prev) ==
    \/ m \in {"number", "identifier", "keyword"} /\ prev \in LiteralClass
    \/ m = "prefix_op" /\ token.type = "INC" /\ prev = "ADD"
    \/ m = "prefix_op" /\ token.type = "DEC" /\ prev = "SUB"
    \/ m = "unary_op" /\ token.type = "ADD" /\ prev = "ADD"
    \/ m = "unary_op" /\ token.type = "SUB" /\ prev = "SUB"

\* the tokens that belong in the output after the calls cs
RECURSIVE ExpectedWritten(_)
ExpectedWritten(cs) ==
    IF cs = <<>> THEN <<>>
    ELSE LET front == ExpectedWritten(SubSeq(cs, 1, Len(cs) - 1))
             prev == IF front = <<>> THEN "None" ELSE front[Len(front)].type
             this == cs[Len(cs)]
         IN  front \o (IF SpaceBefore(this.m, this.token, prev) THEN <<SpaceToken>> ELSE <<>>)
                   \o <<this.token>>

\* C3: after any sequence of report_* calls the written tokens are the
\* reported ones, each preceded by exactly one SPACE iff it is a number,
\* identifier or keyword after a token of the literal class, a prefix ++
\* after +, a prefix -- after -, a unary + after + or a unary - after -; no
\* two SPACE tokens are adjacent, and the stream holds the written texts.
C3_SpaceRule ==
    /\ written = ExpectedWritten(calls)
    /\ \A i \in 1..(Len(written) - 1) :
            ~(written[i].type = "SPACE" /\ written[i + 1].type = "SPACE")
    /\ stream = Flatten([i \in 1..Len(written) |-> written[i].value])

\* a keyword was written after a reserved word with a space between them,
\* and a prefix ++ after a number without one
C3_Witness ==
    \/ /\ Len(calls) = 2 /\ calls[1].token.type = "RESERVED" /\ calls[2].m = "keyword"
       /\ Len(written) = 3 /\ written[2] = SpaceToken
    \/ /\ Len(calls) = 2 /\ calls[1].token.type = "DECIMAL" /\ calls[2].m = "prefix_op"
       /\ Len(written) = 2

\* the calls a handler has put in place of its visit, seen in the step it takes
Pushed == SubSeq(work', 1, Len(work') - Len(work) + 1)

IsPrefix(p, s) == Len(p) <= Len(s) /\ SubSeq(s, 1, Len(p)) = p
IsSuffix(p, s) == Len(p) <= Len(s) /\ SubSeq(s, Len(s) - Len(p) + 1, Len(s)) = p

\* C4: the handler of a BinaryOperation or CompareOperation emits its right
\* operand inside parentheses iff precedence(right) <= precedence(node).
C4_RightOperand ==
    [][Visiting("BinaryOperation") \/ Visiting("CompareOperation") =>
        (IsSuffix(parenthesize(node.right), Pushed)
            <=> precedence(node.right) <= precedence(node))]_vars

\* the calls that emit `child` in a slot of `parent` whose rule is strict
ParensIfLower(child, parent) ==
    IF precedence(child) < precedence(parent) THEN parenthesize(child) ELSE Visit(child)

\* C5: in every operand slot but the right one of a binary or compare
\* operation, the handler emits the child inside parentheses iff
\* precedence(child) < precedence(parent).
C5_OtherOperands ==
    [][/\ Visiting("Assignment") =>
            Pushed = ParensIfLower(node.target, node) \o CG_report_binary_op(node.op)
                     \o ParensIfLower(node.value, node)
       /\ Visiting("Conditional") =>
            Pushed = ParensIfLower(node.condition, node) \o CG_report_literal("?")
                     \o ParensIfLower(node.then_expression, node) \o CG_report_literal(":")
                     \o ParensIfLower(node.else_expression, node)
       /\ Visiting("BinaryOperation") \/ Visiting("CompareOperation") =>
            IsPrefix(ParensIfLower(node.left, node) \o CG_report_binary_op(node.op), Pushed)
       /\ Visiting("UnaryOperation") =>
            Pushed = CG_report_unary_op(node.op) \o ParensIfLower(node.expression, node)
       /\ Visiting("TypeofOperation") =>
            Pushed = CG_report_keyword("typeof") \o ParensIfLower(node.expression, node)
       /\ Visiting("DeleteOperation") =>
            Pushed = CG_report_keyword("delete") \o ParensIfLower(node.expression, node)
       /\ Visiting("VoidOperation") =>
            Pushed = CG_report_keyword("void") \o ParensIfLower(node.expression, node)
       /\ Visiting("PrefixCountOperation") =>
            Pushed = CG_report_prefix_op(node.op) \o ParensIfLower(node.expression, node)
       /\ Visiting("PostfixCountOperation") =>
            Pushed = ParensIfLower(node.expression, node) \o CG_report_postfix_op(node.op)
       /\ Visiting("CallExpression") =>
            IsPrefix(ParensIfLower(node.expression, node) \o CG_report_literal("("), Pushed)
       /\ Visiting("NewExpression") =>
            IsPrefix(CG_report_keyword("new") \o ParensIfLower(node.expression, node), Pushed)
            /\ (node.arguments = NoNode =>
                    Pushed = CG_report_keyword("new") \o ParensIfLower(node.expression, node))
       /\ Visiting("DotProperty") =>
            IsPrefix(ParensIfLower(node.object, node) \o CG_report_literal("."), Pushed)
       /\ Visiting("BracketProperty") =>
            IsPrefix(ParensIfLower(node.object, node) \o CG_report_literal("["), Pushed)
      ]_vars

\* C6: when the program's first statement is an ExpressionStatement, the
\* first token written for it is neither the keyword `function` nor `{`.
C6_StatementStart ==
    (Done /\ ast.type = "Program" /\ ast.statements[1].type = "ExpressionStatement")
        => written[1].type \notin {"FUNCTION", "LBRACE"}

\* the branch of an IfStatement that decides its semicolon
InspectedBranch(s) ==
    IF s.else_statement # NoNode THEN s.else_statement ELSE s.then_statement

\* C7: for an IfStatement in the statement list of the program,
\* needs_semicolon is that of its else branch, or of its then branch when
\* there is no else branch.
C7_IfSemicolon ==
    ast.type = "Program" =>
        \A i \in 1..Len(ast.statements) :
            ast.statements[i].type = "IfStatement" =>
                needs_semicolon(ast.statements[i])
                    = needs_semicolon(InspectedBranch(ast.statements[i]))

\* the body of a loop, the nested statement of a with statement
BodyOf(s) == IF "body" \in DOMAIN s THEN s.body ELSE s.statement

\* C8: for a while, with, for or for-in statement in the statement list of
\* the program, needs_semicolon is that of its body, at any depth.
C8_BodySemicolon ==
    ast.type = "Program" =>
        \A i \in 1..Len(ast.statements) :
            ast.statements[i].type \in BODY_MAY_NEED_SEMICOLON =>
                needs_semicolon(ast.statements[i])
                    = needs_semicolon(BodyOf(ast.statements[i]))

(***************************************************************************)
(* name_generator.py                                                       *)
(***************************************************************************)

\* string.ascii_letters + "$_"
IDENTIFIER_START_CHARS ==
    <<"a", "b", "c", "d", "e", "f", "g", "h", "i", "j", "k", "l", "m", "n", "o", "p", "q",
      "r", "s", "t", "u", "v", "w", "x", "y", "z", "A", "B", "C", "D", "E", "F", "G", "H",
      "I", "J", "K", "L", "M", "N", "O", "P", "Q", "R", "S", "T", "U", "V", "W", "X", "Y",
      "Z", "$", "_">>

\* IDENTIFIER_START_CHARS + string.digits
IDENTIFIER_CHARS ==
    IDENTIFIER_START_CHARS \o <<"0", "1", "2", "3", "4", "5", "6", "7", "8", "9">>

DISALLOWED_NAMES == {"as", "is", "do", "if", "in", "for", "int", "new", "try", "use", "var"}

\* the loops over first and second of build_names_list: every first \o second,
\* first varying slowest
Products(firsts, rests) ==
    [i \in 1..(Len(firsts) * Len(rests)) |->
        firsts[((i - 1) \div Len(rests)) + 1] \o rests[((i - 1) % Len(rests)) + 1]]

\* the idents of the second loop
TwoCharacters == Products(IDENTIFIER_START_CHARS, IDENTIFIER_CHARS)

\* the ident of the p-th turn of the third loop
ThreeCharacters(p) ==
    TwoCharacters[((p - 1) \div Len(IDENTIFIER_CHARS)) + 1]
        \o IDENTIFIER_CHARS[((p - 1) % Len(IDENTIFIER_CHARS)) + 1]

\* the turn of the third loop, from the p-th on, that appends the q-th name
RECURSIVE Appended(_, _, _)
Appended(disallowed, p, q) ==
    IF ThreeCharacters(p) \in disallowed THEN Appended(disallowed, p + 1, q)
    ELSE IF q = 1 THEN p
    ELSE Appended(disallowed, p + 1, q - 1)

\* build_names_list without the tests `ident in disallowed`
build_names_list_keeping_all(disallowed, index) ==
    LET one == Len(IDENTIFIER_START_CHARS)
    IN  IF index < one THEN IDENTIFIER_START_CHARS[index + 1]
        ELSE IF index < one + Len(TwoCharacters) THEN TwoCharacters[index - one + 1]
        ELSE ThreeCharacters(index - one - Len(TwoCharacters) + 1)

\* build_names_list(disallowed)[index]
build_names_list(disallowed, index) ==
    LET one == Len(IDENTIFIER_START_CHARS)
        two == SelectSeq(TwoCharacters, LAMBDA ident : ident \notin disallowed)
    IN  IF index < one THEN IDENTIFIER_START_CHARS[index + 1]
        ELSE IF index < one + Len(two) THEN two[index - one + 1]
        ELSE ThreeCharacters(Appended(disallowed, 1, index - one - Len(two) + 1))

\* SHORTNAMES[index]
SHORTNAMES(index) == build_names_list(DISALLOWED_NAMES, index)

\* NameGenerator.next with self.index = index: the name returned
NameGenerator_next(index) == SHORTNAMES(index)

\* how many names are drawn from one generator
MaxDraws == 3507

\* NameGenerator(): name_list is SHORTNAMES and index is 0
InitNames ==
    /\ self_index = 0
    /\ drawn = <<>>
    /\ returned = NoNode
    /\ generate_calls = <<>>
    /\ ast = NoNode
    /\ work = <<>>
    /\ scopes = <<>>
    /\ scope = NoScope
    /\ node_scope = <<>>
    /\ renamed = <<>>
    /\ marked_for_parens = {}
    /\ last_token = NoToken
    /\ stream = <<>>
    /\ calls = <<>>
    /\ written = <<>>

\* name_generator.next()
next ==
    /\ self_index < MaxDraws
    /\ drawn' = Append(drawn, NameGenerator_next(self_index))
    /\ self_index' = self_index + 1
    /\ UNCHANGED <<ast, work, returned, renameVars, generatorVars>>

SpecNames == InitNames /\ [][next]_vars

(***************************************************************************)
(* scope_builder.py: Scope, and the mixins of rename.py that make up       *)
(* RenameScope.  The operators take the scopes made so far and the index   *)
(* of self, and give the scopes after the call or the value returned.      *)
(***************************************************************************)

\* RenameScope(parent): the fields set by the __init__ of Scope and the mixins
RenameScope(parent) ==
    [parent |-> parent, declarations |-> <<>>, function_declarations |-> <<>>,
     parameter_declarations |-> <<>>, variable_declarations |-> <<>>,
     uses_with |-> FALSE, _uses_eval |-> FALSE, reference_counts |-> <<>>,
     references |-> <<>>, original_to_new |-> <<>>, new_to_original |-> <<>>]

Range(seq) == {seq[i] : i \in 1..Len(seq)}

\* an OrderedDict of names: setting a key that is present keeps its place
SetKey(keys, name) == IF name \in Range(keys) THEN keys ELSE Append(keys, name)

declare_symbol(scs, self, name) ==
    [scs EXCEPT ![self].declarations = SetKey(@, name)]

declare_function(scs, self, name) ==
    declare_symbol([scs EXCEPT ![self].function_declarations = SetKey(@, name)], self, name)

declare_parameter(scs, self, name) ==
    declare_symbol([scs EXCEPT ![self].parameter_declarations = SetKey(@, name)], self, name)

declare_variable(scs, self, name) ==
    declare_symbol([scs EXCEPT ![self].variable_declarations = SetKey(@, name)], self, name)

\* declare_parameter for each parameter in turn
RECURSIVE declare_parameters(_, _, _)
declare_parameters(scs, self, parameters) ==
    IF parameters = <<>> THEN scs
    ELSE declare_parameters(declare_parameter(scs, self, Head(parameters)), self,
                            Tail(parameters))

RECURSIVE resolve_name(_, _, _)
resolve_name(scs, self, name) ==
    IF name \in Range(scs[self].declarations) THEN self
    ELSE IF scs[self].parent # NoScope THEN resolve_name(scs, scs[self].parent, name)
    ELSE NoScope

has_declaration(scs, self, name) == resolve_name(scs, self, name) # NoScope

RECURSIVE mark_uses_with(_, _)
mark_uses_with(scs, self) ==
    LET marked == [scs EXCEPT ![self].uses_with = TRUE]
    IN  IF scs[self].parent # NoScope THEN mark_uses_with(marked, scs[self].parent)
        ELSE marked

\* declare_reference without the call of the parent's declare_reference
declare_reference_in_self(scs, self, name) ==
    LET referenced ==
            [scs EXCEPT ![self].references = (name :> resolve_name(scs, self, name)) @@ @]
    IN  IF name \in Range(scs[self].declarations)
        THEN [referenced EXCEPT ![self].reference_counts =
                (name :> (IF name \in DOMAIN @ THEN @[name] ELSE 0) + 1) @@ @]
        ELSE referenced

RECURSIVE declare_reference(_, _, _)
declare_reference(scs, self, name) ==
    LET referenced ==
            [scs EXCEPT ![self].references = (name :> resolve_name(scs, self, name)) @@ @]
    IN  IF name \in Range(scs[self].declarations)
        THEN [referenced EXCEPT ![self].reference_counts =
                (name :> (IF name \in DOMAIN @ THEN @[name] ELSE 0) + 1) @@ @]
        ELSE IF scs[self].parent # NoScope
        THEN declare_reference(referenced, scs[self].parent, name)
        ELSE referenced

\* uses_eval: has_declaration returns a bool, and the test `is not None`
\* holds of either bool
uses_eval(scs, self) ==
    IF has_declaration(scs, self, "eval") \in BOOLEAN THEN FALSE
    ELSE scs[self]._uses_eval

RECURSIVE mark_uses_eval(_, _)
mark_uses_eval(scs, self) ==
    LET marked == [scs EXCEPT ![self]._uses_eval = TRUE]
    IN  IF scs[self].parent # NoScope THEN mark_uses_eval(marked, scs[self].parent)
        ELSE marked

\* is_protected without the test of uses_with
is_protected_by_eval_or_root(scs, self) ==
    uses_eval(scs, self) \/ scs[self].parent = NoScope

is_protected(scs, self) ==
    uses_eval(scs, self) \/ scs[self].uses_with \/ scs[self].parent = NoScope

RECURSIVE get_name(_, _, _)
get_name(scs, self, name) ==
    IF name \in DOMAIN scs[self].original_to_new THEN scs[self].original_to_new[name]
    ELSE IF scs[self].parent # NoScope THEN get_name(scs, scs[self].parent, name)
    ELSE name

\* the counted names by rising count
most_common_rising(counts) ==
    LET names == DOMAIN counts
        n == Cardinality(names)
    IN  {order \in [1..n -> names] :
            /\ \A i, j \in 1..n : i # j => order[i] # order[j]
            /\ \A i \in 1..(n - 1) : counts[order[i]] <= counts[order[i + 1]]}

\* Counter.most_common(): the counted names by falling count; names of equal
\* count come in the order of the dict, which is any order
most_common(counts) ==
    LET names == DOMAIN counts
        n == Cardinality(names)
    IN  {order \in [1..n -> names] :
            /\ \A i, j \in 1..n : i # j => order[i] # order[j]
            /\ \A i \in 1..(n - 1) : counts[order[i]] >= counts[order[i + 1]]}

\* the while loop of generate_names: the index of the first name from
\* `index` on that is not in disallowed
RECURSIVE SkipDisallowed(_, _)
SkipDisallowed(index, disallowed) ==
    IF NameGenerator_next(index) \in disallowed THEN SkipDisallowed(index + 1, disallowed)
    ELSE index

\* the for loop of generate_names with a generator that hands out the name it
\* stopped at once more
RECURSIVE AssignNames_repeating(_, _, _, _, _, _)
AssignNames_repeating(scs, self, order, i, index, disallowed) ==
    IF i > Len(order) THEN scs
    ELSE LET at == SkipDisallowed(index, disallowed)
             new_name == NameGenerator_next(at)
         IN  AssignNames_repeating(
                [scs EXCEPT ![self].original_to_new = (order[i] :> new_name) @@ @,
                            ![self].new_to_original = (new_name :> order[i]) @@ @],
                self, order, i + 1, at, disallowed)

\* the for loop of generate_names over order[i..], the generator at `index`
RECURSIVE AssignNames(_, _, _, _, _, _)
AssignNames(scs, self, order, i, index, disallowed) ==
    IF i > Len(order) THEN scs
    ELSE LET at == SkipDisallowed(index, disallowed)
             new_name == NameGenerator_next(at)
         IN  AssignNames(
                [scs EXCEPT ![self].original_to_new = (order[i] :> new_name) @@ @,
                            ![self].new_to_original = (new_name :> order[i]) @@ @],
                self, order, i + 1, at + 1, disallowed)

\* generate_names with nothing disallowed
generate_names_allowing_all(scs, self, order) ==
    IF is_protected(scs, self) THEN scs
    ELSE AssignNames(scs, self, order, 1, 0, {})

\* generate_names, most_common() giving the names in `order`
generate_names(scs, self, order) ==
    IF is_protected(scs, self) THEN scs
    ELSE AssignNames(scs, self, order, 1, 0,
                     {get_name(scs, self, ref) : ref \in DOMAIN scs[self].references})

(***************************************************************************)
(* The visitors of scope_builder.py and rename.py.  A node is named by its *)
(* path from the root: the indices of the children passed through.  A      *)
(* pending call names the visitor by its kind (build, refs, rename) and    *)
(* the node by its path.                                                   *)
(***************************************************************************)

\* the child nodes generic_visit passes on to visit, in field order; None and
\* unicode fields hold no node
Children(n) ==
    LET some(x) == IF x = NoNode THEN <<>> ELSE <<x>>
    IN  CASE n.type = "Program" -> n.statements
          [] n.type \in {"FunctionDeclaration", "FunctionExpression"} -> n.body
          [] n.type = "Block" -> n.statements
          [] n.type = "VariableStatement" -> n.declarations
          [] n.type = "VariableDeclaration" -> some(n.value)
          [] n.type = "ExpressionStatement" -> some(n.expression)
          [] n.type = "ReturnStatement" -> some(n.expression)
          [] n.type = "CallExpression" -> <<n.expression>> \o n.arguments
          [] n.type = "WithStatement" -> <<n.expression, n.statement>>
          [] n.type \in {"BinaryOperation", "CompareOperation"} -> <<n.left, n.right>>
          [] n.type = "Assignment" -> <<n.target, n.value>>
          [] OTHER -> <<>>

RECURSIVE NodeAt(_, _)
NodeAt(tree, path) ==
    IF path = <<>> THEN tree ELSE NodeAt(Children(tree)[Head(path)], Tail(path))

\* the next pending call is visit(n) of the visitor `kind`
Pending(kind) == work # <<>> /\ Head(work).k = kind
path == Head(work).path
target == NodeAt(ast, path)

\* self.visit on every child of the node at `at`
VisitChildren(kind, at) ==
    [i \in 1..Len(Children(NodeAt(ast, at))) |-> [k |-> kind, path |-> Append(at, i)]]

After(kind, at) == <<[k |-> kind, path |-> at]>>

ScopedNodes == {"Program", "FunctionDeclaration", "FunctionExpression"}

\* --- RenameScopeBuildingVisitor ---

\* visit_Program: push_scope, then the statements, then create_program
Build_visit_Program ==
    /\ Pending("build") /\ target.type = "Program"
    /\ scopes' = Append(scopes, RenameScope(scope))
    /\ scope' = Len(scopes) + 1
    /\ work' = VisitChildren("build", path) \o After("create", path) \o Tail(work)
    /\ UNCHANGED <<ast, node_scope, renamed, generatorVars, resultVars, generate_calls>>

Build_visit_FunctionExpression ==
    /\ Pending("build") /\ target.type = "FunctionExpression"
    /\ LET pushed == Append(scopes, RenameScope(scope))
           new == Len(scopes) + 1
           named == IF target.name # "" THEN declare_function(pushed, new, target.name)
                    ELSE pushed
       IN  /\ scopes' = declare_parameters(named, new, target.parameters)
           /\ scope' = new
    /\ work' = VisitChildren("build", path) \o After("create", path) \o Tail(work)
    /\ UNCHANGED <<ast, node_scope, renamed, generatorVars, resultVars, generate_calls>>

\* visit_FunctionDeclaration with the name declared after push_scope
Build_visit_FunctionDeclaration_after_push ==
    /\ Pending("build") /\ target.type = "FunctionDeclaration"
    /\ LET pushed == Append(scopes, RenameScope(scope))
           new == Len(scopes) + 1
           declared == declare_function(pushed, new, target.name)
       IN  /\ scopes' = declare_parameters(declared, new, target.parameters)
           /\ scope' = new
    /\ work' = VisitChildren("build", path) \o After("create", path) \o Tail(work)
    /\ UNCHANGED <<ast, node_scope, renamed, generatorVars, resultVars, generate_calls>>

Build_visit_FunctionDeclaration ==
    /\ Pending("build") /\ target.type = "FunctionDeclaration"
    /\ LET declared == declare_function(scopes, scope, target.name)
           pushed == Append(declared, RenameScope(scope))
           new == Len(scopes) + 1
       IN  /\ scopes' = declare_parameters(pushed, new, target.parameters)
           /\ scope' = new
    /\ work' = VisitChildren("build", path) \o After("create", path) \o Tail(work)
    /\ UNCHANGED <<ast, node_scope, renamed, generatorVars, resultVars, generate_calls>>

\* create_program, create_function_expression, create_function_declaration:
\* the new node gets the scope that pop_scope returns
create_scoped_node ==
    /\ Pending("create")
    /\ node_scope' = (path :> scope) @@ node_scope
    /\ scope' = scopes[scope].parent
    /\ work' = Tail(work)
    /\ UNCHANGED <<ast, scopes, renamed, generatorVars, resultVars, generate_calls>>

\* visit_VariableDeclaration: the value is visited, then the name declared
Build_visit_VariableDeclaration ==
    /\ Pending("build") /\ target.type = "VariableDeclaration"
    /\ work' = VisitChildren("build", path) \o After("declare", path) \o Tail(work)
    /\ UNCHANGED <<ast, renameVars, generatorVars, resultVars>>

Build_declare_variable ==
    /\ Pending("declare")
    /\ scopes' = declare_variable(scopes, scope, target.name)
    /\ work' = Tail(work)
    /\ UNCHANGED <<ast, scope, node_scope, renamed, generatorVars, resultVars, generate_calls>>

Build_visit_WithStatement ==
    /\ Pending("build") /\ target.type = "WithStatement"
    /\ scopes' = mark_uses_with(scopes, scope)
    /\ work' = VisitChildren("build", path) \o Tail(work)
    /\ UNCHANGED <<ast, scope, node_scope, renamed, generatorVars, resultVars, generate_calls>>

Build_visit_Name ==
    /\ Pending("build") /\ target.type = "Name"
    /\ scopes' = IF target.value = "eval" THEN mark_uses_eval(scopes, scope) ELSE scopes
    /\ work' = Tail(work)
    /\ UNCHANGED <<ast, scope, node_scope, renamed, generatorVars, resultVars, generate_calls>>

Build_generic_visit ==
    /\ Pending("build")
    /\ target.type \notin ScopedNodes \cup {"VariableDeclaration", "WithStatement", "Name"}
    /\ work' = VisitChildren("build", path) \o Tail(work)
    /\ UNCHANGED <<ast, renameVars, generatorVars, resultVars>>

\* --- ReferenceAddingVisitor ---

\* ScopeVisitor.__init__ and RenameTransformer.__init__ with no scope given
new_visitor ==
    /\ Pending("new_visitor")
    /\ scope' = NoScope
    /\ work' = Tail(work)
    /\ UNCHANGED <<ast, scopes, node_scope, renamed, generatorVars, resultVars, generate_calls>>

\* visit_scope_node up to its last line
Refs_visit_scope_node ==
    /\ Pending("refs") /\ target.type \in ScopedNodes
    /\ scope' = node_scope[path]
    /\ work' = VisitChildren("refs", path) \o After("leave", path) \o Tail(work)
    /\ UNCHANGED <<ast, scopes, node_scope, renamed, generatorVars, resultVars, generate_calls>>

\* self.scope = self.scope.parent, the last line of visit_scope_node and of
\* RenameTransformer.visit_Program and visit_FunctionExpression
leave_scope ==
    /\ Pending("leave")
    /\ scope' = scopes[scope].parent
    /\ work' = Tail(work)
    /\ UNCHANGED <<ast, scopes, node_scope, renamed, generatorVars, resultVars, generate_calls>>

Refs_visit_Name ==
    /\ Pending("refs") /\ target.type = "Name"
    /\ scopes' = declare_reference(scopes, scope, target.value)
    /\ work' = Tail(work)
    /\ UNCHANGED <<ast, scope, node_scope, renamed, generatorVars, resultVars, generate_calls>>

Refs_generic_visit ==
    /\ Pending("refs") /\ target.type \notin ScopedNodes \cup {"Name"}
    /\ work' = VisitChildren("refs", path) \o Tail(work)
    /\ UNCHANGED <<ast, renameVars, generatorVars, resultVars>>

\* --- RenameTransformer ---

\* one call of generate_names, of the scope `self`
Call(self) == [scope |-> self, at |-> Len(renamed)]

\* one use of RenameTransformer.get_name: the name at `slot` of the node at
\* `at`, looked up from the scope `from` in the scopes scs
Lookup(scs, from, at, slot, name) ==
    [path |-> at, slot |-> slot, old |-> name, new |-> get_name(scs, from, name),
     scope |-> from]

\* visit_Parameters
visit_Parameters(scs, from, at, parameters) ==
    [i \in 1..Len(parameters) |-> Lookup(scs, from, at, "parameter", parameters[i])]

\* visit_Program with the generate_names call that the function visitors make
Rename_visit_Program_generating ==
    /\ Pending("rename") /\ target.type = "Program"
    /\ \E order \in most_common(scopes[node_scope[path]].reference_counts) :
        scopes' = generate_names(scopes, node_scope[path], order)
    /\ generate_calls' = Append(generate_calls, Call(node_scope[path]))
    /\ scope' = node_scope[path]
    /\ work' = VisitChildren("rename", path) \o After("leave_node", path) \o Tail(work)
    /\ UNCHANGED <<ast, node_scope, renamed, generatorVars, resultVars>>

Rename_visit_Program ==
    /\ Pending("rename") /\ target.type = "Program"
    /\ scope' = node_scope[path]
    /\ work' = VisitChildren("rename", path) \o After("leave_node", path) \o Tail(work)
    /\ UNCHANGED <<ast, scopes, node_scope, renamed, generatorVars, resultVars, generate_calls>>

\* visit_FunctionDeclaration up to the visit of the body
Rename_visit_FunctionDeclaration ==
    /\ Pending("rename") /\ target.type = "FunctionDeclaration"
    /\ \E order \in most_common(scopes[node_scope[path]].reference_counts) :
        LET generated == generate_names(scopes, node_scope[path], order)
        IN  /\ scopes' = generated
            /\ renamed' = renamed \o visit_Parameters(generated, node_scope[path], path,
                                                       target.parameters)
    /\ generate_calls' = Append(generate_calls, Call(node_scope[path]))
    /\ scope' = node_scope[path]
    /\ work' = VisitChildren("rename", path) \o After("leave_declaration", path)
               \o Tail(work)
    /\ UNCHANGED <<ast, node_scope, generatorVars, resultVars>>

\* visit_FunctionDeclaration with the name looked up before self.scope is set
\* to the parent
Rename_leave_FunctionDeclaration_in_own_scope ==
    /\ Pending("leave_declaration")
    /\ scope' = scopes[node_scope[path]].parent
    /\ renamed' = Append(renamed, Lookup(scopes, node_scope[path], path,
                                         "function", target.name))
    /\ work' = Tail(work)
    /\ UNCHANGED <<ast, scopes, node_scope, generatorVars, resultVars, generate_calls>>

\* visit_FunctionDeclaration after the visit of the body: the name is looked
\* up from the parent of the node's scope
Rename_leave_FunctionDeclaration ==
    /\ Pending("leave_declaration")
    /\ scope' = scopes[node_scope[path]].parent
    /\ renamed' = Append(renamed, Lookup(scopes, scopes[node_scope[path]].parent, path,
                                         "function", target.name))
    /\ work' = Tail(work)
    /\ UNCHANGED <<ast, scopes, node_scope, generatorVars, resultVars, generate_calls>>

\* visit_FunctionExpression up to the visit of the body; get_name(None) is None
Rename_visit_FunctionExpression ==
    /\ Pending("rename") /\ target.type = "FunctionExpression"
    /\ \E order \in most_common(scopes[node_scope[path]].reference_counts) :
        LET generated == generate_names(scopes, node_scope[path], order)
        IN  /\ scopes' = generated
            /\ renamed' = renamed
                \o (IF target.name # ""
                    THEN <<Lookup(generated, node_scope[path], path, "function", target.name)>>
                    ELSE <<>>)
                \o visit_Parameters(generated, node_scope[path], path, target.parameters)
    /\ generate_calls' = Append(generate_calls, Call(node_scope[path]))
    /\ scope' = node_scope[path]
    /\ work' = VisitChildren("rename", path) \o After("leave_node", path) \o Tail(work)
    /\ UNCHANGED <<ast, node_scope, generatorVars, resultVars>>

\* self.scope = scope.parent of visit_Program and visit_FunctionExpression
Rename_leave_node ==
    /\ Pending("leave_node")
    /\ scope' = scopes[node_scope[path]].parent
    /\ work' = Tail(work)
    /\ UNCHANGED <<ast, scopes, node_scope, renamed, generatorVars, resultVars, generate_calls>>

\* visit_VariableDeclaration: generic_visit first
Rename_visit_VariableDeclaration ==
    /\ Pending("rename") /\ target.type = "VariableDeclaration"
    /\ work' = VisitChildren("rename", path) \o After("rename_variable", path) \o Tail(work)
    /\ UNCHANGED <<ast, renameVars, generatorVars, resultVars>>

\* visit_VariableDeclaration after generic_visit
Rename_variable ==
    /\ Pending("rename_variable")
    /\ renamed' = Append(renamed, Lookup(scopes, scope, path, "variable", target.name))
    /\ work' = Tail(work)
    /\ UNCHANGED <<ast, scopes, scope, node_scope, generatorVars, resultVars, generate_calls>>

Rename_visit_Name ==
    /\ Pending("rename") /\ target.type = "Name"
    /\ renamed' = Append(renamed, Lookup(scopes, scope, path, "Name", target.value))
    /\ work' = Tail(work)
    /\ UNCHANGED <<ast, scopes, scope, node_scope, generatorVars, resultVars, generate_calls>>

Rename_generic_visit ==
    /\ Pending("rename")
    /\ target.type \notin ScopedNodes \cup {"VariableDeclaration", "Name"}
    /\ work' = VisitChildren("rename", path) \o Tail(work)
    /\ UNCHANGED <<ast, renameVars, generatorVars, resultVars>>

\* rename_locals(ast): add_rename_scopes, add_references, rename_scoped_tree
rename_locals ==
    After("build", <<>>) \o After("new_visitor", <<>>) \o After("refs", <<>>)
    \o After("new_visitor", <<>>) \o After("rename", <<>>)

Rename ==
    \/ Build_visit_Program
    \/ Build_visit_FunctionExpression
    \/ Build_visit_FunctionDeclaration
    \/ create_scoped_node
    \/ Build_visit_VariableDeclaration
    \/ Build_declare_variable
    \/ Build_visit_WithStatement
    \/ Build_visit_Name
    \/ Build_generic_visit
    \/ new_visitor
    \/ Refs_visit_scope_node
    \/ leave_scope
    \/ Refs_visit_Name
    \/ Refs_generic_visit
    \/ Rename_visit_Program
    \/ Rename_visit_FunctionDeclaration
    \/ Rename_leave_FunctionDeclaration
    \/ Rename_visit_FunctionExpression
    \/ Rename_leave_node
    \/ Rename_visit_VariableDeclaration
    \/ Rename_variable
    \/ Rename_visit_Name
    \/ Rename_generic_visit

(***************************************************************************)
(* The trees handed to rename_locals.                                      *)
(***************************************************************************)

\* how deep functions are nested
MaxNest == 2

Use(name) == ExpressionStatement(Name(name))

\* statements that hold no function: references to a parameter, to a name
\* declared nowhere, to a function and to eval, a var, a with statement, a
\* var in a block
Leaves ==
    {Use("x"), Use("a"), Use("f"),
     ExpressionStatement(CallExpression(Name("eval"), <<Name("x")>>)),
     VariableStatement(<<VariableDeclaration("y", Name("x"))>>),
     VariableStatement(<<VariableDeclaration("a", NoNode)>>),
     WithStatement(Name("x"), Block(<<>>)),
     Block(<<VariableStatement(<<VariableDeclaration("a", Name("y"))>>)>>),
     ReturnStatement(BinaryOperation(BinaryOperation(Name("x"), "+", Name("y")), "+",
                                     Name("x")))}

ParameterLists == {<<>>, <<"x">>, <<"y", "x">>}

RECURSIVE Bodies(_)
\* the functions whose bodies nest functions n - 1 deep
Functions(n) ==
    IF n = 0 THEN {}
    ELSE {FunctionDeclaration("f", ps, body) : ps \in ParameterLists, body \in Bodies(n - 1)}
         \cup {ExpressionStatement(CallExpression(FunctionExpression("y", <<"x">>, body), <<>>)) :
                body \in Bodies(n - 1)}

Bodies(n) ==
    {<<s1>> : s1 \in Leaves \cup Functions(n)}
    \cup {<<Use("x"), s2>> : s2 \in Functions(n)}

RenamePrograms == {Program(body) : body \in Bodies(MaxNest)}

InitRename ==
    /\ ast \in RenamePrograms
    /\ work = rename_locals
    /\ scopes = <<RenameScope(NoScope)>>
    /\ scope = 1
    /\ node_scope = <<>>
    /\ renamed = <<>>
    /\ marked_for_parens = {}
    /\ last_token = NoToken
    /\ stream = <<>>
    /\ calls = <<>>
    /\ written = <<>>
    /\ self_index = 0
    /\ drawn = <<>>
    /\ returned = NoNode
    /\ generate_calls = <<>>

SpecRename == InitRename /\ [][Rename]_vars

\* rename_locals has returned
Renamed == work = <<>>

(***************************************************************************)
(* Properties of rename_locals.                                            *)
(***************************************************************************)

\* a Name with the given value lies in the tree, nested functions included
RECURSIVE HasName(_, _)
HasName(tree, value) ==
    \/ tree.type = "Name" /\ tree.value = value
    \/ \E i \in 1..Len(Children(tree)) : HasName(Children(tree)[i], value)

\* a with statement lies in the tree, nested functions included
RECURSIVE HasWith(_)
HasWith(tree) ==
    \/ tree.type = "WithStatement"
    \/ \E i \in 1..Len(Children(tree)) : HasWith(Children(tree)[i])

\* the paths of the function nodes that have their scope
FunctionPaths ==
    {p \in DOMAIN node_scope :
        NodeAt(ast, p).type \in {"FunctionDeclaration", "FunctionExpression"}}

\* C9: after rename_locals, a function in which a Name eval occurs, and on
\* whose chain of scopes eval is not declared, has an empty original_to_new.
C9_EvalNotRenamed ==
    Renamed =>
        \A p \in FunctionPaths :
            (HasName(NodeAt(ast, p), "eval")
                /\ resolve_name(scopes, node_scope[p], "eval") = NoScope)
            => scopes[node_scope[p]].original_to_new = <<>>

\* the scopes from self up to the root
RECURSIVE Chain(_, _)
Chain(scs, self) ==
    IF self = NoScope THEN {} ELSE {self} \cup Chain(scs, scs[self].parent)

\* C10: after rename_locals every scope whose node contains a with statement
\* has uses_with set and an empty original_to_new; at any time a scope with
\* uses_with set has it set in every scope up to the root; and uses_with,
\* once set, stays set.
C10_WithProtected ==
    /\ [](/\ Renamed =>
                \A p \in DOMAIN node_scope :
                    HasWith(NodeAt(ast, p)) =>
                        /\ scopes[node_scope[p]].uses_with
                        /\ scopes[node_scope[p]].original_to_new = <<>>
          /\ \A i \in DOMAIN scopes :
                scopes[i].uses_with => \A j \in Chain(scopes, i) : scopes[j].uses_with)
    /\ [][\A i \in DOMAIN scopes : scopes[i].uses_with => scopes'[i].uses_with]_vars

\* rename_locals has returned, and a function whose nested function holds a
\* with statement has uses_with set and no new names although one of its
\* parameters is referenced
C10_Witness ==
    /\ Renamed
    /\ \E p, q \in FunctionPaths :
            /\ Len(p) < Len(q) /\ SubSeq(q, 1, Len(p)) = p
            /\ HasWith(NodeAt(ast, q))
            /\ scopes[node_scope[p]].uses_with
            /\ scopes[node_scope[p]].reference_counts # <<>>
            /\ scopes[node_scope[p]].original_to_new = <<>>

\* the scope attached to the Program node, once create_program has run
ProgramScope == IF <<>> \in DOMAIN node_scope THEN node_scope[<<>>] ELSE NoScope

\* the scope in which the name of a lookup is declared, seen from the scope
\* the lookup was made in
Resolved(lookup) == resolve_name(scopes, lookup.scope, lookup.old)

\* C11: every name that rename_locals looks up (a Name, a function name, a var
\* name, a parameter) and that is declared in the program scope or in no
\* scope comes back unchanged, at every depth of nesting, and the program
\* scope never gets an entry in original_to_new.
C11_ProgramLevelUnchanged ==
    /\ \A i \in DOMAIN renamed :
            Resolved(renamed[i]) \in {NoScope, ProgramScope}
            => renamed[i].new = renamed[i].old
    /\ ProgramScope # NoScope => scopes[ProgramScope].original_to_new = <<>>

\* rename_locals has returned; a Name in a nested function that is declared
\* in the program scope was looked up from a scope on whose chain locals
\* were renamed
C11_Witness ==
    /\ Renamed
    /\ \E i \in DOMAIN renamed :
            /\ renamed[i].slot = "Name" /\ Resolved(renamed[i]) = ProgramScope
            /\ Len(renamed[i].path) > 3
            /\ \E k \in Chain(scopes, renamed[i].scope) : scopes[k].original_to_new # <<>>

\* usesEval as the specification qualifies it: the mark, unless eval is declared
\* in the scope or in a scope on its chain
QualifiedUsesEval(self) ==
    scopes[self]._uses_eval /\ ~has_declaration(scopes, self, "eval")

\* C12: once the scopes are built, is_protected() of the scope of every
\* scoped node is true iff its qualified usesEval is true, or uses_with is
\* true, or it is the scope of the Program node; the scope of the Program
\* node has no parent and is_protected() is true for it.
C12_ProtectedIff ==
    ProgramScope # NoScope =>
        /\ \A p \in DOMAIN node_scope :
                is_protected(scopes, node_scope[p])
                <=> \/ QualifiedUsesEval(node_scope[p])
                    \/ scopes[node_scope[p]].uses_with
                    \/ node_scope[p] = ProgramScope
        /\ scopes[ProgramScope].parent = NoScope
        /\ is_protected(scopes, ProgramScope)

\* f is one-to-one and g maps every value of f back to its argument
InverseOf(f, g) ==
    \A n \in DOMAIN f : f[n] \in DOMAIN g /\ g[f[n]] = n

\* C13: in every scope original_to_new and new_to_original are inverse to
\* each other, each is one-to-one, and they have the same number of entries.
C13_MapsInverse ==
    \A i \in DOMAIN scopes :
        LET o2n == scopes[i].original_to_new
            n2o == scopes[i].new_to_original
        IN  /\ InverseOf(o2n, n2o)
            /\ InverseOf(n2o, o2n)
            /\ \A n, m \in DOMAIN o2n : o2n[n] = o2n[m] => n = m
            /\ \A n, m \in DOMAIN n2o : n2o[n] = n2o[m] => n = m
            /\ Cardinality(DOMAIN o2n) = Cardinality(DOMAIN n2o)

\* generate_names has given new names to two locals of one scope
C13_Witness ==
    \E i \in DOMAIN scopes : Cardinality(DOMAIN scopes[i].original_to_new) >= 2

\* the lookup is of a Name that lies in the function of the scope self or in
\* a function nested in it, and that is declared in a scope above self or in
\* no scope
ResolvesOutside(lookup, self) ==
    /\ lookup.slot = "Name"
    /\ self \in Chain(scopes, lookup.scope)
    /\ Resolved(lookup) \in {NoScope} \cup (Chain(scopes, self) \ {self})

\* C14: the new name of a local of a scope differs from the name that
\* rename_locals gives to any Name in the scope's function, or in a function
\* nested in it, that is declared in a scope above or in no scope.
C14_NoCapture ==
    \A i \in DOMAIN renamed : \A self \in DOMAIN scopes :
        ResolvesOutside(renamed[i], self)
        => \A n \in DOMAIN scopes[self].original_to_new :
                scopes[self].original_to_new[n] # renamed[i].new

\* rename_locals has returned; a Name of a nested function that is declared
\* in no scope, or above, came out as the first name of the generator, and a
\* scope on its chain below its declaration has given its locals later names
C14_Witness ==
    /\ Renamed
    /\ \E i \in DOMAIN renamed : \E self \in DOMAIN scopes :
            /\ ResolvesOutside(renamed[i], self)
            /\ self # renamed[i].scope
            /\ renamed[i].new = NameGenerator_next(0)
            /\ scopes[self].original_to_new # <<>>

(***************************************************************************)
(* generate_names on the scope of a function that references many names   *)
(* declared nowhere: the scopes are those that add_rename_scopes and       *)
(* add_references leave for function f(first, second, third) {...} with    *)
(* the body referencing its parameters and the first names of the          *)
(* generator, so that the new names run into the two-character names.      *)
(***************************************************************************)

\* how many of the generator's first names the function references
MaxReferenced == 55

\* how often a parameter is referenced
MaxCount == 2

Locals == <<"first", "second", "third">>

\* the Name nodes of the body: each local as often as counted, then the
\* first `globals` names of the generator
ReferencedNames(counts, globals) ==
    Flatten([i \in 1..Len(Locals) |-> [j \in 1..counts[i] |-> Locals[i]]])
    \o [k \in 1..globals |-> NameGenerator_next(k - 1)]

\* the root scope, the scope of the program that declares f, and the scope
\* of f with its parameters declared
DeclaredScopes ==
    declare_parameters(
        declare_function(<<RenameScope(NoScope), RenameScope(1), RenameScope(2)>>, 2, "f"),
        3, Locals)

InitGenerate ==
    /\ \E counts \in [1..Len(Locals) -> 1..MaxCount] : \E globals \in 0..MaxReferenced :
            work = [i \in 1..Len(ReferencedNames(counts, globals)) |->
                        [k |-> "reference", name |-> ReferencedNames(counts, globals)[i]]]
                   \o <<[k |-> "generate_names"]>>
    /\ scopes = DeclaredScopes
    /\ scope = 3
    /\ ast = NoNode
    /\ node_scope = <<>>
    /\ renamed = <<>>
    /\ marked_for_parens = {}
    /\ last_token = NoToken
    /\ stream = <<>>
    /\ calls = <<>>
    /\ written = <<>>
    /\ self_index = 0
    /\ drawn = <<>>
    /\ returned = NoNode
    /\ generate_calls = <<>>

\* ReferenceAddingVisitorMixin.visit_Name on the next Name of the body
Generate_visit_Name ==
    /\ Pending("reference")
    /\ scopes' = declare_reference(scopes, scope, Head(work).name)
    /\ work' = Tail(work)
    /\ UNCHANGED <<ast, scope, node_scope, renamed, generatorVars, resultVars, generate_calls>>

\* scope.generate_names()
Generate_names ==
    /\ Pending("generate_names")
    /\ \E order \in most_common(scopes[scope].reference_counts) :
            scopes' = generate_names(scopes, scope, order)
    /\ generate_calls' = Append(generate_calls, Call(scope))
    /\ work' = Tail(work)
    /\ UNCHANGED <<ast, scope, node_scope, renamed, generatorVars, resultVars>>

GenerateNames == Generate_visit_Name \/ Generate_names

SpecGenerate == InitGenerate /\ [][GenerateNames]_vars

\* the names the generator returns first, by index
FirstNames == [k \in 0..(MaxReferenced + Len(Locals)) |-> NameGenerator_next(k)]

\* the index the generator was at when it returned the name
DrawIndex(name) == CHOOSE k \in DOMAIN FirstNames : FirstNames[k] = name

\* C15: of two locals renamed in one scope, the one with the greater reference
\* count has the name the generator returned earlier, and a name that is not
\* longer.
C15_CountOrder ==
    \A i \in DOMAIN scopes :
        LET o2n == scopes[i].original_to_new
            counts == scopes[i].reference_counts
        IN  \A n, m \in DOMAIN o2n :
                counts[n] > counts[m]
                => /\ DrawIndex(o2n[n]) < DrawIndex(o2n[m])
                   /\ Len(o2n[n]) <= Len(o2n[m])

\* two locals of one scope with different reference counts have new names,
\* one of one character and one of two
C15_Witness ==
    \E i \in DOMAIN scopes :
        \E n, m \in DOMAIN scopes[i].original_to_new :
            /\ scopes[i].reference_counts[n] > scopes[i].reference_counts[m]
            /\ Len(scopes[i].original_to_new[n]) = 1
            /\ Len(scopes[i].original_to_new[m]) = 2

(***************************************************************************)
(* precedence(node) on one node of every class, with every operator.       *)
(***************************************************************************)

\* the operators of the tables, the count operators and two that no table has
Operators ==
    DOMAIN BINARY_OPS \cup DOMAIN UNARY_OPS \cup {"++", "--", "typeof", "**"}

PrecedenceNodes ==
    {BinaryOperation(a, o, b) : o \in Operators}
    \cup {CompareOperation(a, o, b) : o \in Operators}
    \cup {Assignment(a, o, b) : o \in Operators}
    \cup {UnaryOperation(o, a) : o \in Operators}
    \cup {PrefixCountOperation(o, a) : o \in Operators}
    \cup {PostfixCountOperation(a, o) : o \in Operators}
    \cup {Conditional(a, b, c), TypeofOperation(a), DeleteOperation(a), VoidOperation(a),
          CallExpression(a, <<b>>), NewExpression(a, NodeList(<<>>)), DotProperty(a, b),
          BracketProperty(a, b), a, ThisNode, NullNode, TrueNode, FalseNode,
          NumberLiteral(<<"1">>), StringLiteral(<<>>), ArrayLiteral(<<>>), ObjectLiteral(<<>>),
          FunctionExpression("", <<>>, <<>>), EmptyStatement, ExpressionStatement(a),
          Block(<<>>), BreakStatement(""), Program(<<>>), NoNode}

InitPrecedence ==
    /\ ast \in PrecedenceNodes
    /\ work = <<[k |-> "precedence"]>>
    /\ returned = NoNode
    /\ generate_calls = <<>>
    /\ self_index = 0
    /\ drawn = <<>>
    /\ scopes = <<>>
    /\ scope = NoScope
    /\ node_scope = <<>>
    /\ renamed = <<>>
    /\ marked_for_parens = {}
    /\ last_token = NoToken
    /\ stream = <<>>
    /\ calls = <<>>
    /\ written = <<>>

\* precedence(ast)
call_precedence ==
    /\ Pending("precedence")
    /\ returned' = precedence(ast)
    /\ work' = Tail(work)
    /\ UNCHANGED <<ast, self_index, drawn, renameVars, generatorVars>>

SpecPrecedence == InitPrecedence /\ [][call_precedence]_vars

(***************************************************************************)
(* Properties of NameGenerator.                                            *)
(***************************************************************************)

LowerCase ==
    <<"a", "b", "c", "d", "e", "f", "g", "h", "i", "j", "k", "l", "m", "n", "o", "p", "q",
      "r", "s", "t", "u", "v", "w", "x", "y", "z">>

UpperCase ==
    <<"A", "B", "C", "D", "E", "F", "G", "H", "I", "J", "K", "L", "M", "N", "O", "P", "Q",
      "R", "S", "T", "U", "V", "W", "X", "Y", "Z">>

Digits09 == <<"0", "1", "2", "3", "4", "5", "6", "7", "8", "9">>

Blocklist == {"as", "is", "do", "if", "in", "for", "int", "new", "try", "use", "var"}

\* the name spelled by the places r of its characters, the first in the
\* alphabet and the others in the alphabet followed by the digits
Spell(r, alphabet) ==
    LET others == alphabet \o Digits09
    IN  alphabet[r[1]]
        \o (IF Len(r) >= 2 THEN others[r[2]] ELSE "")
        \o (IF Len(r) >= 3 THEN others[r[3]] ELSE "")

\* the two-character names by their first character
Rows(alphabet) ==
    [i \in 1..Len(alphabet) |->
        {alphabet[i] \o (alphabet \o Digits09)[j] : j \in 1..(Len(alphabet) + Len(Digits09))}]

\* the alphabet as claimed and the alphabet as amended, with their rows
ClaimedAlphabet ==
    [letters |-> UpperCase \o LowerCase \o <<"$", "_">>,
     rows |-> Rows(UpperCase \o LowerCase \o <<"$", "_">>)]

AmendedAlphabet ==
    [letters |-> LowerCase \o UpperCase \o <<"$", "_">>,
     rows |-> Rows(LowerCase \o UpperCase \o <<"$", "_">>)]

\* the places of the characters of a name of up to three characters
Places(name, alphabet) ==
    LET firsts == 1..Len(alphabet.letters)
        others == 1..(Len(alphabet.letters) + Len(Digits09))
    IN  IF Len(name) = 2
        THEN LET i == CHOOSE i \in firsts : name \in alphabet.rows[i]
             IN  CHOOSE r \in {i} \X others : Spell(r, alphabet.letters) = name
        ELSE CHOOSE r \in (IF Len(name) = 1 THEN {<<i>> : i \in firsts}
                           ELSE firsts \X others \X others) :
                Spell(r, alphabet.letters) = name

\* the shorter name first, and of two names of one length the one that comes
\* first in lexicographic order over the alphabet
ComesBefore(n, m, alphabet) ==
    \/ Len(n) < Len(m)
    \/ /\ Len(n) = Len(m)
       /\ LET r == Places(n, alphabet)
              q == Places(m, alphabet)
          IN  \E i \in 1..Len(r) : r[i] < q[i] /\ \A j \in 1..(i - 1) : r[j] = q[j]

\* what holds of the names a fresh generator has returned so far, stated of
\* the last one: the first name is the first letter of the alphabet, the
\* last name comes after the one before it, is of one to three characters,
\* is not in the blocklist and was not returned before, and the index is the
\* number of calls
InGeneratorOrder(alphabet) ==
    LET n == Len(drawn)
    IN  /\ self_index = n
        /\ n >= 1 =>
                /\ drawn[1] = alphabet.letters[1]
                /\ Len(drawn[n]) \in 1..3
                /\ drawn[n] \notin Blocklist
                /\ \A i \in 1..(n - 1) : drawn[i] # drawn[n]
        /\ n >= 2 => ComesBefore(drawn[n - 1], drawn[n], alphabet)

\* C16 as claimed: the names of a fresh generator come by rising length and
\* within one length in lexicographic order over A-Z, a-z, $, _ (then the
\* digits), the first name is A, no name is in the blocklist, none comes
\* twice and each call advances the index by one.
C16_ClaimedOrder == InGeneratorOrder(ClaimedAlphabet)

\* C16 as amended: the same with the alphabet in the order a-z, A-Z, $, _, so
\* that the first name is a.
C16_GeneratorOrder == InGeneratorOrder(AmendedAlphabet)

\* the generator has returned the one-character names and has passed over
\* the two-character name `as`
C16_Witness ==
    /\ Len(drawn) > Len(LowerCase) + Len(UpperCase) + 2
    /\ drawn[Len(drawn) - 1] = "ar"
    /\ drawn[Len(drawn)] = "at"

(***************************************************************************)
(* Properties of precedence.                                               *)
(***************************************************************************)

\* the table of the specification, by operator
TableOfOperators(op) ==
    CASE op = "," -> 1
      [] op \in {"=", "+=", "-=", "*=", "/=", "%=", "<<=", ">>=", ">>>=", "&=", "^=", "|="} -> 2
      [] op = "||" -> 4
      [] op = "&&" -> 5
      [] op = "|" -> 6
      [] op = "^" -> 7
      [] op = "&" -> 8
      [] op \in {"==", "!=", "===", "!=="} -> 9
      [] op \in {"<", ">", "<=", ">=", "instanceof", "in"} -> 10
      [] op \in {"<<", ">>", ">>>"} -> 11
      [] op \in {"+", "-"} -> 12
      [] op \in {"*", "/", "%"} -> 13
      [] OTHER -> 20

\* the table of the specification, by node
TableValue(n) ==
    CASE n.type = "Conditional" -> 3
      [] n.type = "UnaryOperation" -> IF n.op \in {"!", "~", "+", "-"} THEN 14 ELSE 20
      [] n.type \in {"TypeofOperation", "DeleteOperation", "VoidOperation"} -> 14
      [] n.type \in {"PrefixCountOperation", "PostfixCountOperation"} -> 15
      [] n.type = "CallExpression" -> 16
      [] n.type \in {"DotProperty", "BracketProperty", "NewExpression"} -> 17
      [] n.type \in {"BinaryOperation", "CompareOperation", "Assignment"} ->
            TableOfOperators(n.op)
      [] OTHER -> 20

\* C17: precedence(node) returns the value of the table for the node: by
\* class for the classes the table names, 14 for a UnaryOperation with one of
\* ! ~ + -, by operator for a binary operation, a comparison and an
\* assignment, and 20 for every other node, for an operator the table does
\* not have and for None.
C17_PrecedenceTable ==
    work = <<>> => returned = TableValue(ast)

\* precedence has returned 14 for a UnaryOperation whose operator is also a
\* binary operator
C17_Witness ==
    /\ work = <<>> /\ ast.type = "UnaryOperation" /\ ast.op = "-"
    /\ returned = 14

(***************************************************************************)
(* Properties of the statement visitors.                                   *)
(***************************************************************************)

\* C18: the visitor of a BreakStatement and of a ContinueStatement reports
\* the keyword and then visits the target label when the node has one, and
\* reports the keyword alone when it has none.
C18_LabelsKept ==
    [][(Visiting("BreakStatement") \/ Visiting("ContinueStatement")) =>
            Pushed = CG_report_keyword(IF node.type = "BreakStatement" THEN "break"
                                       ELSE "continue")
                     \o (IF node.target # "" THEN Visit(Unicode(node.target)) ELSE <<>>)]_vars

(***************************************************************************)
(* Properties of generate_names and of add_references.                     *)
(***************************************************************************)

\* the reference count of a declared name, 0 when it was never referenced
CountOf(self, name) ==
    IF name \in DOMAIN scopes[self].reference_counts
    THEN scopes[self].reference_counts[name] ELSE 0

\* the declared names of a scope by falling reference count, names of equal
\* count in the order of their declaration
ByCountThenDeclaration(self) ==
    LET declared == scopes[self].declarations
        place(name) == CHOOSE i \in 1..Len(declared) : declared[i] = name
    IN  CHOOSE order \in [1..Len(declared) -> Range(declared)] :
            \A i, j \in 1..Len(declared) :
                i < j =>
                    \/ CountOf(self, order[i]) > CountOf(self, order[j])
                    \/ /\ CountOf(self, order[i]) = CountOf(self, order[j])
                       /\ place(order[i]) < place(order[j])

\* the names that were disallowed when generate_names ran on the scope: the
\* names of its references before the scope had new names of its own
DisallowedIn(self) ==
    {get_name([scopes EXCEPT ![self].original_to_new = <<>>], self, ref) :
        ref \in DOMAIN scopes[self].references}

\* the index of the n-th name of the generator that is not disallowed
RECURSIVE NthAllowed(_, _, _)
NthAllowed(n, from, disallowed) ==
    IF NameGenerator_next(from) \in disallowed THEN NthAllowed(n, from + 1, disallowed)
    ELSE IF n = 1 THEN from
    ELSE NthAllowed(n - 1, from + 1, disallowed)

\* C19: after rename_locals, the scope of every function that is not
\* protected has a new name for every declared name, referenced or not: the
\* n-th name by falling reference count, ties in the order of declaration,
\* has the n-th name of the generator that is not disallowed.
C19_EveryDeclarationRenamed ==
    Renamed =>
        \A p \in FunctionPaths :
            LET self == node_scope[p]
                order == ByCountThenDeclaration(self)
            IN  ~is_protected(scopes, self) =>
                    /\ DOMAIN scopes[self].original_to_new = Range(scopes[self].declarations)
                    /\ \A n \in 1..Len(order) :
                            scopes[self].original_to_new[order[n]]
                            = NameGenerator_next(NthAllowed(n, 0, DisallowedIn(self)))

\* the paths of the Name nodes of the tree, nested functions included
RECURSIVE NamePaths(_, _)
NamePaths(tree, at) ==
    (IF tree.type = "Name" THEN {at} ELSE {})
    \cup UNION {NamePaths(Children(tree)[i], Append(at, i)) : i \in 1..Len(Children(tree))}

\* the scope of the innermost scoped node the path lies in
ScopeAt(p) ==
    LET around == {n \in 0..Len(p) : SubSeq(p, 1, n) \in DOMAIN node_scope}
    IN  node_scope[SubSeq(p, 1, CHOOSE n \in around : \A m \in around : m <= n)]

\* the nearest scope on the chain from self that declares the name, or none
Nearest(self, name) ==
    LET declaring == {d \in Chain(scopes, self) : name \in Range(scopes[d].declarations)}
    IN  IF declaring = {} THEN NoScope
        ELSE CHOOSE d \in declaring : declaring \subseteq Chain(scopes, d)

\* add_references has returned
ReferencesAdded ==
    /\ ast # NoNode /\ ProgramScope # NoScope
    /\ \A i \in DOMAIN work : work[i].k \notin {"refs", "leave"}

\* C20: after add_references, the reference count of a name in a scope is the
\* number of Name nodes of that value whose nearest declaring scope, seen
\* from the function they lie in, is the scope; and for every Name node each
\* scope from the one it lies in up to the one that declares it (up to the
\* root when none does) has the name in references, with the nearest scope
\* on its own chain that declares the name, or none.
C20_ReferenceCounts ==
    ReferencesAdded =>
        LET names == NamePaths(ast, <<>>)
        IN  /\ \A self \in DOMAIN scopes :
                \A name \in {NodeAt(ast, p).value : p \in names}
                             \cup DOMAIN scopes[self].reference_counts :
                    CountOf(self, name)
                    = Cardinality({p \in names : /\ NodeAt(ast, p).value = name
                                                 /\ Nearest(ScopeAt(p), name) = self})
            /\ \A p \in names :
                LET name == NodeAt(ast, p).value
                    declaring == Nearest(ScopeAt(p), name)
                IN  \A self \in Chain(scopes, ScopeAt(p))
                                \ (Chain(scopes, declaring) \ {declaring}) :
                        /\ name \in DOMAIN scopes[self].references
                        /\ scopes[self].references[name] = Nearest(self, name)

\* add_references has returned; a name is counted twice in the scope of a
\* function, once for a Name of a function nested in it, and a scope between
\* has it in its references
C20_Witness ==
    /\ ReferencesAdded
    /\ \E p \in NamePaths(ast, <<>>) :
            LET name == NodeAt(ast, p).value
                declaring == Nearest(ScopeAt(p), name)
            IN  /\ declaring \notin {NoScope, ProgramScope, ScopeAt(p)}
                /\ CountOf(declaring, name) >= 2
                /\ scopes[ScopeAt(p)].references[name] = declaring

(***************************************************************************)
(* Properties of the scope building visitor.                               *)
(***************************************************************************)

\* the paths of the nodes of the given classes, nested functions included
RECURSIVE PathsOf(_, _, _)
PathsOf(tree, at, types) ==
    (IF tree.type \in types THEN {at} ELSE {})
    \cup UNION {PathsOf(Children(tree)[i], Append(at, i), types) :
                    i \in 1..Len(Children(tree))}

\* the path of the innermost scoped node that holds the node at p, p itself
\* left out
Enclosing(p) ==
    LET around == {n \in 0..(Len(p) - 1) : NodeAt(ast, SubSeq(p, 1, n)).type \in ScopedNodes}
    IN  SubSeq(p, 1, CHOOSE n \in around : \A m \in around : m <= n)

\* q comes before p when the tree is walked in the order of the visitor
VisitedBefore(q, p) ==
    \/ Len(q) < Len(p) /\ SubSeq(p, 1, Len(q)) = q
    \/ \E i \in 1..Len(q) :
            /\ i <= Len(p) /\ q[i] < p[i]
            /\ SubSeq(q, 1, i - 1) = SubSeq(p, 1, i - 1)

\* the scope pushed for the scoped node at p: the scopes are made in the
\* order of the visits, after the scope the visitor starts with
PushedFor(p) ==
    Cardinality({q \in PathsOf(ast, <<>>, ScopedNodes) : VisitedBefore(q, p)}) + 2

\* the scope the builder is in while it is inside the node at p and outside
\* every scoped node below it
ScopeInside(p) == IF p = <<>> THEN 1 ELSE PushedFor(Enclosing(p))

\* add_rename_scopes has returned
ScopesBuilt == ast # NoNode /\ ProgramScope # NoScope

\* C21: once the scopes are built, every Program, FunctionDeclaration and
\* FunctionExpression node has a scope of its own whose parent, for a
\* function, is the scope of the nearest function or program around it; the
\* name of a FunctionDeclaration is declared in the scope around it; the name
\* of a named FunctionExpression, the parameters and every var inside a
\* function, at any depth of blocks, are declared in the scope of the
\* function.  While the scopes are built, the builder is in the same scope
\* before and after the visit of a node: at the visit of a node it is in
\* the scope of the scoped node around it, and when the whole tree has been
\* visited it is in the scope it started with.
C21_ScopesBuilt ==
    /\ ScopesBuilt =>
        LET scoped == PathsOf(ast, <<>>, ScopedNodes)
        IN  /\ DOMAIN node_scope = scoped
            /\ \A p, q \in scoped : node_scope[p] = node_scope[q] => p = q
            /\ \A p \in scoped \ {<<>>} :
                    LET own == scopes[node_scope[p]]
                        around == scopes[node_scope[Enclosing(p)]]
                        function == NodeAt(ast, p)
                    IN  /\ own.parent = node_scope[Enclosing(p)]
                        /\ function.type = "FunctionDeclaration"
                            => function.name \in Range(around.declarations)
                        /\ (function.type = "FunctionExpression" /\ function.name # "")
                            => function.name \in Range(own.declarations)
                        /\ Range(function.parameters) \subseteq Range(own.declarations)
            /\ \A v \in PathsOf(ast, <<>>, {"VariableDeclaration"}) :
                    NodeAt(ast, v).name \in Range(scopes[node_scope[Enclosing(v)]].declarations)
    /\ (Pending("build") \/ Pending("declare")) => scope = ScopeInside(path)
    /\ Pending("create") => scope = PushedFor(path)
    /\ (Pending("new_visitor") /\ Len(work) = Len(rename_locals) - 1) => scope = 1

\* the scopes are built for a function declared in a function, with a var in
\* a block of the inner function
C21_Witness ==
    /\ ScopesBuilt
    /\ \E v \in PathsOf(ast, <<>>, {"VariableDeclaration"}) :
            /\ NodeAt(ast, SubSeq(v, 1, Len(v) - 2)).type = "Block"
            /\ NodeAt(ast, Enclosing(v)).type = "FunctionDeclaration"
            /\ NodeAt(ast, Enclosing(Enclosing(v))).type = "FunctionDeclaration"
            /\ NodeAt(ast, v).name
                \notin Range(scopes[node_scope[Enclosing(Enclosing(v))]].declarations)

(***************************************************************************)
(* Properties of the names that rename_locals emits.                       *)
(***************************************************************************)

\* C22: after rename_locals, two different names declared in the scope of one
\* function (parameters, variables, function names; referenced or not;
\* renamed by the scope, left as they were or looked up through the parent)
\* never come out of get_name of that scope as the same name.
C22_DeclarationsKeptApart ==
    Renamed =>
        \A p \in FunctionPaths :
            \A n, m \in Range(scopes[node_scope[p]].declarations) :
                get_name(scopes, node_scope[p], n) = get_name(scopes, node_scope[p], m)
                => n = m

(***************************************************************************)
(* Properties of the order of rename_scoped_tree.                          *)
(***************************************************************************)

\* the function nodes of the tree
Functions_of_ast == PathsOf(ast, <<>>, {"FunctionDeclaration", "FunctionExpression"})

\* the calls of generate_names made so far for the scope of the node at p
CallsFor(p) ==
    {i \in 1..Len(generate_calls) :
        p \in DOMAIN node_scope /\ generate_calls[i].scope = node_scope[p]}

\* the k-th looked up name belongs to the inside of the function at p: a name
\* below p, a parameter of p, or the name of the function expression p
RewrittenInside(k, p) ==
    \/ Len(p) < Len(renamed[k].path) /\ IsPrefix(p, renamed[k].path)
    \/ renamed[k].path = p /\ renamed[k].slot = "parameter"
    \/ /\ renamed[k].path = p /\ renamed[k].slot = "function"
       /\ NodeAt(ast, p).type = "FunctionExpression"

\* what the histories of generate_names and of get_name show of the order
GeneratedInOrder ==
    /\ \A i \in 1..Len(generate_calls) :
            \E p \in Functions_of_ast : i \in CallsFor(p)
    /\ \A p \in Functions_of_ast :
            /\ Cardinality(CallsFor(p)) <= 1
            /\ Renamed => Cardinality(CallsFor(p)) = 1
            /\ \A i \in CallsFor(p) : \A q \in Functions_of_ast :
                    (Len(q) < Len(p) /\ IsPrefix(q, p)) => \E j \in CallsFor(q) : j < i
            /\ \A k \in 1..Len(renamed) :
                    RewrittenInside(k, p)
                    => \E i \in CallsFor(p) : generate_calls[i].at < k
    /\ \A k \in 1..Len(renamed) :
            renamed[k].slot = "function" =>
                renamed[k].scope =
                    IF NodeAt(ast, renamed[k].path).type = "FunctionDeclaration"
                    THEN node_scope[Enclosing(renamed[k].path)]
                    ELSE node_scope[renamed[k].path]

\* the visit of a scoped node by the transformer ends in this step
LeavesScopedNode == Pending("leave_node") \/ Pending("leave_declaration")

\* C23: in rename_scoped_tree generate_names is called once for the scope of
\* each function and never for another scope, after the calls for the
\* functions around it and before a Name, a parameter, a var name or a nested
\* function inside the function is looked up; the name of a
\* FunctionDeclaration is looked up through the scope around it and the name
\* of a FunctionExpression through its own scope; and when the transformer
\* leaves a scoped node its scope is the parent of the scope of that node.
C23_GenerateOrder ==
    /\ []GeneratedInOrder
    /\ [][LeavesScopedNode => scope' = scopes[node_scope[path]].parent]_vars

\* a function declared in a function has been left by the transformer: both
\* scopes have had their names generated, the outer one first, and a name
\* inside the inner function came out renamed
C23_Witness ==
    /\ Renamed
    /\ \E p, q \in Functions_of_ast :
            /\ Len(q) < Len(p) /\ IsPrefix(q, p)
            /\ NodeAt(ast, p).type = "FunctionDeclaration"
            /\ \E i \in CallsFor(p), j \in CallsFor(q) : j < i
            /\ \E k \in 1..Len(renamed) :
                    /\ RewrittenInside(k, p)
                    /\ renamed[k].new # renamed[k].old
            /\ \E k \in 1..Len(renamed) :
                    /\ renamed[k].path = p /\ renamed[k].slot = "function"
                    /\ renamed[k].scope # node_scope[p]

====
